---- MODULE Spec2Model ----
(***************************************************************************)
(* Model of the moderation plugin src/src/plugins/ModActions.ts: the       *)
(* ledger of ignored events (ignoreEvent / isEventIgnored /                *)
(* clearIgnoredEvent and the expiry timers set by ignoreEvent), the three  *)
(* gateway event handlers (guildBanAdd, guildBanRemove, guildMemberRemove) *)
(* and the commands that mutate the guild (kick, ban, softban, unban,      *)
(* forceban, massban), each cut at its awaits.                             *)
(***************************************************************************)
EXTENDS Integers, Sequences, FiniteSets, TLC

\* ------------------------------------------------------------------ bounds

\* Commands started plus gateway events of foreign origin (events that are not
\* the echo of a modelled command) in one behaviour.
MaxLoad == 2
\* Longest userIds list given to massban.
MaxTargets == 2

Users == {"u1", "u2"}

\* ------------------------------------------------------- program constants

\* enum IgnoredEventType { Ban = 1, Unban, Kick }
Ban == 1
Unban == 2
Kick == 3
IgnoredEventTypes == {Ban, Unban, Kick}

\* setTimeout(..., timeout || 1000 * 15)
DEFAULT_TIMEOUT == 1000 * 15
\* this.ignoreEvent(IgnoredEventType.Ban, userId, 120 * 1000)
MASSBAN_TIMEOUT == 120 * 1000

\* msg.author.id of the operator, the bot's own user id (the actor of the
\* audit entries of the bot's mutations) and the actor of foreign actions.
ModId == "mod"
BotId == "bot"
ForeignModId == "other"
\* findRelevantAuditLogEntry found nothing / createCase got no modId.
NoEntry == "none"

\* ------------------------------------------------------------ Array helpers

Range(seq) == {seq[k] : k \in 1..Len(seq)}

Min(a, b) == IF a < b THEN a ELSE b
Max(a, b) == IF a > b THEN a ELSE b

\* A comparison that looks at the type only.
MatchesType(info, type, userId) == info.type = type

\* Does the ledger entry info match (type, userId)? The predicate of
\* isEventIgnored and clearIgnoredEvent; an entry's id is not looked at.
Matches(info, type, userId) == type = info.type /\ userId = info.userId

\* Array.prototype.findIndex with that predicate: the 0-based index of the first
\* match, -1 when there is none.
FindIndex(events, type, userId) ==
    IF \E i \in 1..Len(events) : Matches(events[i], type, userId)
    THEN (CHOOSE i \in 1..Len(events) :
            /\ Matches(events[i], type, userId)
            /\ \A j \in 1..(i - 1) : ~Matches(events[j], type, userId)) - 1
    ELSE -1

\* Array.prototype.splice(start, 1): a negative start counts from the end
\* (len + start, not below 0), a start past the end is the end; the element
\* at the resulting 0-based index, if any, is removed.
Splice1(arr, start) ==
    LET len == Len(arr)
        s == IF start < 0 THEN Max(len + start, 0) ELSE Min(start, len)
    IN  IF s < len
        THEN [i \in 1..(len - 1) |-> IF i <= s THEN arr[i] ELSE arr[i + 1]]
        ELSE arr

\* ------------------------------------------------------------------ ledger

\* this.ignoredEvents.some(info => type === info.type && userId === info.userId)
IsEventIgnored(events, type, userId) ==
    \E i \in 1..Len(events) : Matches(events[i], type, userId)

\* A clearIgnoredEvent that leaves the list as it is.
ClearIgnoredEventKeeps(events, type, userId) == events

\* A clearIgnoredEvent that drops every entry of the pair.
ClearAllMatching(events, type, userId) ==
    SelectSeq(events, LAMBDA info : ~Matches(info, type, userId))

\* this.ignoredEvents.splice(this.ignoredEvents.findIndex(...), 1)
ClearIgnoredEvent(events, type, userId) ==
    Splice1(events, FindIndex(events, type, userId))

\* How many entries of the ledger are for (type, userId).
CountOf(events, type, userId) ==
    Cardinality({i \in 1..Len(events) : Matches(events[i], type, userId)})

\* ------------------------------------------------------------------- state

VARIABLES
    ignoredEvents,  \* this.ignoredEvents, in push order; id names the registration
    timers,         \* the setTimeout callbacks of ignoreEvent not yet run
    nextId,         \* id of the next registration
    consumed,       \* ids of the entries removed by an event handler
    expired,        \* the timers that have run
    cases,          \* the cases made by fire("createCase", ...)
    logs,           \* the calls of serverLogs.log
    ignoredLogs,    \* the calls of serverLogs.ignoreLog
    cmds,           \* the commands started, each with its position
    echoes,         \* gateway events of successful mutations, not yet handled
    external,       \* gateway events of foreign origin handled so far
    last,           \* what the last step was
    mutes,          \* the mute store: the live MuteState of each muted user
    notes,          \* the calls of fire("createCaseNote", ...)
    notify,         \* the call of tryToMessageUser under way
    runs            \* the calls of the censor plugin's applyFiltersToMsg

\* What the mute command, tryToMessageUser and the censor plugin work on.
storeVars == <<mutes, notes, notify, runs>>

vars == <<ignoredEvents, timers, nextId, consumed, expired, cases, logs,
          ignoredLogs, cmds, echoes, external, last, storeVars>>

CmdIds == 1..Len(cmds)

\* op: what ran; for an event, ignored says whether the handler found the event
\* in the ledger and found whether its audit lookup gave an entry; for a timer,
\* ignored says whether the ledger held an entry of the timer's pair.
Step(op, type, userId, ignored, found, cmd) ==
    [op |-> op, type |-> type, userId |-> userId, ignored |-> ignored,
     found |-> found, cmd |-> cmd]

\* ------------------------------------------------------------- ignoreEvent

\* this.ignoredEvents.push({ type, userId })
IgnoreEventPush(events, type, userId, id) ==
    Append(events, [type |-> type, userId |-> userId, id |-> id])

\* An ignoreEvent that sets no timer.
IgnoreEventNoTimer(pending, type, userId, timeout, id, at) == pending

\* setTimeout(() => this.clearIgnoredEvent(type, userId), timeout || 1000 * 15);
\* a null timeout is 0 here. at names the step that set the timer: timers set
\* in one run of the code with one timeout are due at the same moment.
IgnoreEventTimer(pending, type, userId, timeout, id, at) ==
    LET ms == IF timeout = 0 THEN DEFAULT_TIMEOUT ELSE timeout
    IN  Append(pending, [type |-> type, userId |-> userId, id |-> id,
                         timeout |-> ms, at |-> at])

\* The id of the entry that clearIgnoredEvent(type, userId) finds first.
FirstMatchId(events, type, userId) ==
    events[FindIndex(events, type, userId) + 1].id

\* The timers due together with timer i: those set in the same run of the code
\* with the same timeout, in the order they were set.
DueWith(i) ==
    SelectSeq(timers, LAMBDA t : t.at = timers[i].at /\ t.timeout = timers[i].timeout)

\* Timers whose callbacks clear nothing.
RunTimersNoClear(events, due) == events

\* The callbacks of the timers in due run one after the other:
\* clearIgnoredEvent(type, userId) of each.
RECURSIVE RunTimers(_, _)
RunTimers(events, due) ==
    IF due = <<>> THEN events
    ELSE RunTimers(ClearIgnoredEvent(events, Head(due).type, Head(due).userId), Tail(due))

\* The callback of a timer may run once no timer that is due before it is
\* pending: a timer set earlier with a timeout not longer than this one's. (A
\* timer set earlier with a longer timeout may be due before or after.)
TimerDue(i) ==
    \A j \in 1..(i - 1) : timers[j].timeout > timers[i].timeout

\* The expiry callbacks set by ignoreEvent: timer i is due, and with it the
\* timers set together with it.
FireTimer(i) ==
    /\ TimerDue(i)
    /\ ignoredEvents' = RunTimers(ignoredEvents, DueWith(i))
    /\ timers' = SelectSeq(timers, LAMBDA t : ~(t.at = timers[i].at /\ t.timeout = timers[i].timeout))
    /\ expired' = expired \cup Range(DueWith(i))
    /\ last' = Step("timer", 0, "", FALSE, FALSE, timers[i].at)
    /\ UNCHANGED <<nextId, consumed, cases, logs, ignoredLogs, cmds, echoes, external>>
    /\ UNCHANGED storeVars

\* ---------------------------------------------------------- event handlers

MakeCase(userId, modId, type, automatic, by, ref) ==
    [userId |-> userId, modId |-> modId, type |-> type, automatic |-> automatic,
     by |-> by, ref |-> ref]

\* onGuildBanAdd after the ignore check: the case of a ban seen on the gateway.
\* Without an audit entry createCase gets neither modId nor automatic.
BanAddCases(userId, auditUser, by, ref) ==
    IF auditUser # NoEntry
    THEN {MakeCase(userId, auditUser, "Ban", TRUE, by, ref)}
    ELSE {MakeCase(userId, NoEntry, "Ban", FALSE, by, ref)}

\* An onGuildBanRemove that makes a case only with an audit entry.
BanRemoveCasesNeedsEntry(userId, auditUser, by, ref) ==
    IF auditUser # NoEntry
    THEN {MakeCase(userId, auditUser, "Unban", TRUE, by, ref)}
    ELSE {}

\* onGuildBanRemove after the ignore check.
BanRemoveCases(userId, auditUser, by, ref) ==
    IF auditUser # NoEntry
    THEN {MakeCase(userId, auditUser, "Unban", TRUE, by, ref)}
    ELSE {MakeCase(userId, NoEntry, "Unban", TRUE, by, ref)}

\* onGuildMemberRemove after the ignore check: a case only with a kick entry
\* in the audit log.
MemberRemoveCases(userId, auditUser, by, ref) ==
    IF auditUser # NoEntry
    THEN {MakeCase(userId, auditUser, "Kick", TRUE, by, ref)}
    ELSE {}

\* serverLogs.log(LogType.MEMBER_KICK, ...) of onGuildMemberRemove.
MemberRemoveLogs(userId, auditUser) ==
    IF auditUser # NoEntry
    THEN {[type |-> "MEMBER_KICK", userId |-> userId, mod |-> auditUser, count |-> 0]}
    ELSE {}

HandlerCases(type, userId, auditUser, by, ref) ==
    CASE type = Ban   -> BanAddCases(userId, auditUser, by, ref)
      [] type = Unban -> BanRemoveCases(userId, auditUser, by, ref)
      [] type = Kick  -> MemberRemoveCases(userId, auditUser, by, ref)

\* onGuildBanAdd / onGuildBanRemove / onGuildMemberRemove. The handlers differ
\* in the event type they look up and in what they do with the audit entry;
\* the await of findRelevantAuditLogEntry is followed only by the createCase
\* (and log) calls, which read nothing of this plugin's state.
OnGuildEvent(type, userId, auditUser, by, ref) ==
    IF IsEventIgnored(ignoredEvents, type, userId)
    THEN /\ ignoredEvents' = ClearIgnoredEvent(ignoredEvents, type, userId)
         /\ consumed' = consumed \cup {FirstMatchId(ignoredEvents, type, userId)}
         /\ UNCHANGED <<cases, logs>>
    ELSE /\ cases' = cases \cup HandlerCases(type, userId, auditUser, by, ref)
         /\ logs' = logs \cup (IF type = Kick THEN MemberRemoveLogs(userId, auditUser) ELSE {})
         /\ UNCHANGED <<ignoredEvents, consumed>>

\* The gateway delivers the event of a mutation one of the commands made.
OnEcho(e, found) ==
    /\ e \in echoes
    /\ echoes' = echoes \ {e}
    /\ OnGuildEvent(e.type, e.userId, IF found THEN BotId ELSE NoEntry, "echo", <<e.cmd, e.n>>)
    /\ last' = Step("event", e.type, e.userId,
                    IsEventIgnored(ignoredEvents, e.type, e.userId),
                    found /\ ~IsEventIgnored(ignoredEvents, e.type, e.userId), e.cmd)
    /\ UNCHANGED <<timers, nextId, expired, ignoredLogs, cmds, external>>
    /\ UNCHANGED storeVars

\* The gateway delivers a ban, unban or member removal somebody else caused.
OnExternal(type, userId, found) ==
    /\ Len(cmds) + external < MaxLoad
    /\ external' = external + 1
    /\ OnGuildEvent(type, userId, IF found THEN ForeignModId ELSE NoEntry,
                    "external", <<0, external + 1>>)
    /\ last' = Step("event", type, userId,
                    IsEventIgnored(ignoredEvents, type, userId),
                    found /\ ~IsEventIgnored(ignoredEvents, type, userId), 0)
    /\ UNCHANGED <<timers, nextId, expired, ignoredLogs, cmds, echoes>>
    /\ UNCHANGED storeVars

\* ---------------------------------------------------------------- commands

\* A second command runs beside the first only when both are of these kinds.
PairKinds == {"kick", "ban", "unban", "forceban"}

\* May a command of this kind start?
CanStart(kind) ==
    /\ Len(cmds) + external < MaxLoad
    /\ Len(cmds) = 0 \/ (kind \in PairKinds /\ \A c \in CmdIds : cmds[c].kind \in PairKinds)

\* The locals of a command; at is, for a softban, the id of its first
\* ignoreEvent call (history).
NewCmd(kind, userIds) ==
    [kind |-> kind, userIds |-> userIds, pc |-> "start", messageSent |-> TRUE,
     muts |-> <<>>, failedBans |-> <<>>, i |-> 0, out |-> "", reg |-> {},
     reply |-> [got |-> FALSE, content |-> ""], blocked |-> {}, at |-> 0]

\* The command c with its record replaced; c may be the command being started.
CmdsWith(c, rec) ==
    IF c = Len(cmds) + 1 THEN Append(cmds, rec) ELSE [cmds EXCEPT ![c] = rec]

\* A call of the platform (member.kick, member.ban, guild.banMember,
\* guild.unbanMember) is sent; its result comes later.
Issue(rec, op, userId) ==
    [rec EXCEPT !.muts = Append(@, [op |-> op, userId |-> userId, st |-> "sent"])]

Registered(rec, type, userId) == [rec EXCEPT !.reg = @ \cup {<<type, userId>>}]

IgnoreLog(type, id, timeout) == [type |-> type, id |-> id, timeout |-> timeout]

LogEntry(type, userId, mod, count) ==
    [type |-> type, userId |-> userId, mod |-> mod, count |-> count]

CmdStep(c) == Step("cmd", 0, "", FALSE, FALSE, 0)

\* A refusal that reports the error and does not return.
DeniedGoesOn(rec) == [rec EXCEPT !.pc = "notify", !.out = "denied"]

\* canActOn refused: the error message and the return.
Denied(rec) == [rec EXCEPT !.pc = "done", !.out = "denied"]

\* What the event type of the echo of a platform call is.
EchoType(op) == CASE op = "kick" -> Kick [] op = "ban" -> Ban [] op = "unban" -> Unban

\* The platform carries out (or rejects) call n of command c; a call carried
\* out is followed by its gateway event.
PlatformApply(c, n, ok) ==
    /\ c \in CmdIds
    /\ n \in 1..Len(cmds[c].muts)
    /\ cmds[c].muts[n].st = "sent"
    /\ cmds' = [cmds EXCEPT ![c].muts[n].st = IF ok THEN "ok" ELSE "fail"]
    /\ echoes' = IF ok
                 THEN echoes \cup {[type |-> EchoType(cmds[c].muts[n].op),
                                    userId |-> cmds[c].muts[n].userId,
                                    cmd |-> c, n |-> n]}
                 ELSE echoes
    /\ last' = Step("platform", 0, "", FALSE, FALSE, 0)
    /\ UNCHANGED <<ignoredEvents, timers, nextId, consumed, expired, cases, logs,
                   ignoredLogs, external>>
    /\ UNCHANGED storeVars

\* ---- kick

\* kickCmd from "Kick the user" to the await of createCase, without the
\* ignoreEvent call.
KickMutateNoIgnore(c, rec) ==
    LET u == rec.userIds[1] IN
    /\ ignoredLogs' = ignoredLogs \cup {IgnoreLog("MEMBER_KICK", u, 0)}
    /\ cases' = cases \cup {MakeCase(u, ModId, "Kick", FALSE, "cmd", <<c, 1>>)}
    /\ cmds' = CmdsWith(c, [Issue(rec, "kick", u) EXCEPT !.pc = "case"])
    /\ UNCHANGED <<ignoredEvents, timers, nextId, consumed, expired, logs, echoes, external>>

\* A kickCmd that kicks first and messages the member afterwards.
KickMutateThenNotify(c, rec) ==
    LET u == rec.userIds[1] IN
    /\ ignoredLogs' = ignoredLogs \cup {IgnoreLog("MEMBER_KICK", u, 0)}
    /\ ignoredEvents' = IgnoreEventPush(ignoredEvents, Kick, u, nextId)
    /\ timers' = IgnoreEventTimer(timers, Kick, u, 0, nextId, nextId)
    /\ nextId' = nextId + 1
    /\ cases' = cases \cup {MakeCase(u, ModId, "Kick", FALSE, "cmd", <<c, 1>>)}
    /\ cmds' = CmdsWith(c, [Registered(Issue(rec, "kick", u), Kick, u) EXCEPT !.pc = "notify"])
    /\ UNCHANGED <<consumed, expired, logs, echoes, external>>

\* kickCmd from "Kick the user" to the await of createCase: ignoreLog,
\* ignoreEvent, member.kick (not awaited), fire("createCase").
KickMutate(c, rec) ==
    LET u == rec.userIds[1] IN
    /\ ignoredLogs' = ignoredLogs \cup {IgnoreLog("MEMBER_KICK", u, 0)}
    /\ ignoredEvents' = IgnoreEventPush(ignoredEvents, Kick, u, nextId)
    /\ timers' = IgnoreEventTimer(timers, Kick, u, 0, nextId, nextId)
    /\ nextId' = nextId + 1
    /\ cases' = cases \cup {MakeCase(u, ModId, "Kick", FALSE, "cmd", <<c, 1>>)}
    /\ cmds' = CmdsWith(c, [Registered(Issue(rec, "kick", u), Kick, u) EXCEPT !.pc = "case"])
    /\ UNCHANGED <<consumed, expired, logs, echoes, external>>

\* kickCmd up to its first await: the canActOn check, then, with a reason, the
\* await of tryToMessageUser, and without one the kick at once.
KickCmd(u, allowed, reason) ==
    /\ CanStart("kick")
    /\ LET c == Len(cmds) + 1
           rec == NewCmd("kick", <<u>>)
       IN  /\ IF ~allowed
              THEN /\ cmds' = Append(cmds, Denied(rec))
                   /\ UNCHANGED <<ignoredEvents, timers, nextId, consumed, expired, cases,
                                  logs, ignoredLogs, echoes, external>>
              ELSE IF reason
              THEN /\ cmds' = Append(cmds, [rec EXCEPT !.pc = "notify"])
                   /\ UNCHANGED <<ignoredEvents, timers, nextId, consumed, expired, cases,
                                  logs, ignoredLogs, echoes, external>>
              ELSE KickMutate(c, rec)
           /\ last' = CmdStep(c)
    /\ UNCHANGED storeVars

\* tryToMessageUser returned messageSent.
KickNotified(c, sent) ==
    /\ c \in CmdIds
    /\ cmds[c].kind = "kick"
    /\ cmds[c].pc = "notify"
    /\ KickMutate(c, [cmds[c] EXCEPT !.messageSent = sent])
    /\ last' = CmdStep(c)
    /\ UNCHANGED storeVars

\* createCase returned: the response and the log entry.
KickDone(c) ==
    /\ c \in CmdIds
    /\ cmds[c].kind = "kick"
    /\ cmds[c].pc = "case"
    /\ cmds' = [cmds EXCEPT ![c].pc = "done",
                            ![c].out = IF cmds[c].messageSent THEN "ok" ELSE "ok_unnotified"]
    /\ logs' = logs \cup {LogEntry("MEMBER_KICK", cmds[c].userIds[1], ModId, 0)}
    /\ last' = CmdStep(c)
    /\ UNCHANGED <<ignoredEvents, timers, nextId, consumed, expired, cases, ignoredLogs,
                   echoes, external>>
    /\ UNCHANGED storeVars

\* ---- ban

\* banCmd from "Ban the user" to the await of createCase: ignoreLog,
\* ignoreEvent, member.ban (not awaited), fire("createCase").
BanMutate(c, rec) ==
    LET u == rec.userIds[1] IN
    /\ ignoredLogs' = ignoredLogs \cup {IgnoreLog("MEMBER_BAN", u, 0)}
    /\ ignoredEvents' = IgnoreEventPush(ignoredEvents, Ban, u, nextId)
    /\ timers' = IgnoreEventTimer(timers, Ban, u, 0, nextId, nextId)
    /\ nextId' = nextId + 1
    /\ cases' = cases \cup {MakeCase(u, ModId, "Ban", FALSE, "cmd", <<c, 1>>)}
    /\ cmds' = CmdsWith(c, [Registered(Issue(rec, "ban", u), Ban, u) EXCEPT !.pc = "case"])
    /\ UNCHANGED <<consumed, expired, logs, echoes, external>>

\* banCmd up to its first await.
BanCmd(u, allowed, reason) ==
    /\ CanStart("ban")
    /\ LET c == Len(cmds) + 1
           rec == NewCmd("ban", <<u>>)
       IN  /\ IF ~allowed
              THEN /\ cmds' = Append(cmds, Denied(rec))
                   /\ UNCHANGED <<ignoredEvents, timers, nextId, consumed, expired, cases,
                                  logs, ignoredLogs, echoes, external>>
              ELSE IF reason
              THEN /\ cmds' = Append(cmds, [rec EXCEPT !.pc = "notify"])
                   /\ UNCHANGED <<ignoredEvents, timers, nextId, consumed, expired, cases,
                                  logs, ignoredLogs, echoes, external>>
              ELSE BanMutate(c, rec)
           /\ last' = CmdStep(c)
    /\ UNCHANGED storeVars

BanNotified(c, sent) ==
    /\ c \in CmdIds
    /\ cmds[c].kind = "ban"
    /\ cmds[c].pc = "notify"
    /\ BanMutate(c, [cmds[c] EXCEPT !.messageSent = sent])
    /\ last' = CmdStep(c)
    /\ UNCHANGED storeVars

BanDone(c) ==
    /\ c \in CmdIds
    /\ cmds[c].kind = "ban"
    /\ cmds[c].pc = "case"
    /\ cmds' = [cmds EXCEPT ![c].pc = "done",
                            ![c].out = IF cmds[c].messageSent THEN "ok" ELSE "ok_unnotified"]
    /\ logs' = logs \cup {LogEntry("MEMBER_BAN", cmds[c].userIds[1], ModId, 0)}
    /\ last' = CmdStep(c)
    /\ UNCHANGED <<ignoredEvents, timers, nextId, consumed, expired, cases, ignoredLogs,
                   echoes, external>>
    /\ UNCHANGED storeVars

\* ---- softban

\* softbanCmd up to the await of member.ban: the canActOn check, both ignoreLog
\* and both ignoreEvent calls, then the ban.
SoftbanStart(u, allowed) ==
    /\ LET c == Len(cmds) + 1
           rec == NewCmd("softban", <<u>>)
       IN  /\ IF ~allowed
              THEN /\ cmds' = Append(cmds, Denied(rec))
                   /\ UNCHANGED <<ignoredEvents, timers, nextId, ignoredLogs>>
              ELSE /\ ignoredLogs' = ignoredLogs \cup {IgnoreLog("MEMBER_BAN", u, 0),
                                                       IgnoreLog("MEMBER_UNBAN", u, 0)}
                   /\ ignoredEvents' =
                        IgnoreEventPush(IgnoreEventPush(ignoredEvents, Ban, u, nextId),
                                        Unban, u, nextId + 1)
                   /\ timers' =
                        IgnoreEventTimer(IgnoreEventTimer(timers, Ban, u, 0, nextId, nextId),
                                         Unban, u, 0, nextId + 1, nextId)
                   /\ nextId' = nextId + 2
                   /\ cmds' = Append(cmds,
                        [Registered(Registered(Issue(rec, "ban", u), Ban, u), Unban, u)
                           EXCEPT !.pc = "ban", !.at = nextId])
           /\ last' = CmdStep(c)
    /\ UNCHANGED <<consumed, expired, cases, logs, echoes, external>>
    /\ UNCHANGED storeVars

\* softbanCmd is called.
SoftbanCmd(u, allowed) == CanStart("softban") /\ SoftbanStart(u, allowed)

\* member.ban returned: a rejection ends the command (nothing catches it),
\* otherwise guild.unbanMember is called and awaited.
SoftbanBanned(c) ==
    /\ c \in CmdIds
    /\ cmds[c].kind = "softban"
    /\ cmds[c].pc = "ban"
    /\ cmds[c].muts[1].st # "sent"
    /\ cmds' = [cmds EXCEPT ![c] =
                  IF cmds[c].muts[1].st = "fail"
                  THEN [@ EXCEPT !.pc = "done", !.out = "threw"]
                  ELSE [Issue(@, "unban", @.userIds[1]) EXCEPT !.pc = "unban"]]
    /\ last' = CmdStep(c)
    /\ UNCHANGED <<ignoredEvents, timers, nextId, consumed, expired, cases, logs,
                   ignoredLogs, echoes, external>>
    /\ UNCHANGED storeVars

\* guild.unbanMember returned: a rejection ends the command, otherwise
\* fire("createCase") of type Softban, awaited.
SoftbanUnbanned(c) ==
    /\ c \in CmdIds
    /\ cmds[c].kind = "softban"
    /\ cmds[c].pc = "unban"
    /\ cmds[c].muts[2].st # "sent"
    /\ IF cmds[c].muts[2].st = "fail"
       THEN /\ cmds' = [cmds EXCEPT ![c].pc = "done", ![c].out = "threw"]
            /\ UNCHANGED cases
       ELSE /\ cmds' = [cmds EXCEPT ![c].pc = "case"]
            /\ cases' = cases \cup
                 {MakeCase(cmds[c].userIds[1], ModId, "Softban", FALSE, "cmd", <<c, 1>>)}
    /\ last' = CmdStep(c)
    /\ UNCHANGED <<ignoredEvents, timers, nextId, consumed, expired, logs, ignoredLogs,
                   echoes, external>>
    /\ UNCHANGED storeVars

SoftbanDone(c) ==
    /\ c \in CmdIds
    /\ cmds[c].kind = "softban"
    /\ cmds[c].pc = "case"
    /\ cmds' = [cmds EXCEPT ![c].pc = "done", ![c].out = "ok"]
    /\ logs' = logs \cup {LogEntry("MEMBER_SOFTBAN", cmds[c].userIds[1], ModId, 0)}
    /\ last' = CmdStep(c)
    /\ UNCHANGED <<ignoredEvents, timers, nextId, consumed, expired, cases, ignoredLogs,
                   echoes, external>>
    /\ UNCHANGED storeVars

\* ---- unban

\* unbanCmd up to the await of guild.unbanMember: ignoreLog, ignoreEvent, the
\* unban.
UnbanCmd(u) ==
    /\ CanStart("unban")
    /\ ignoredLogs' = ignoredLogs \cup {IgnoreLog("MEMBER_UNBAN", u, 0)}
    /\ ignoredEvents' = IgnoreEventPush(ignoredEvents, Unban, u, nextId)
    /\ timers' = IgnoreEventTimer(timers, Unban, u, 0, nextId, nextId)
    /\ nextId' = nextId + 1
    /\ cmds' = Append(cmds, [Registered(Issue(NewCmd("unban", <<u>>), "unban", u), Unban, u)
                               EXCEPT !.pc = "unban"])
    /\ last' = CmdStep(Len(cmds) + 1)
    /\ UNCHANGED <<consumed, expired, cases, logs, echoes, external>>
    /\ UNCHANGED storeVars

\* guild.unbanMember returned: caught with "Failed to unban member", or the
\* confirmation and fire("createCase"), awaited.
UnbanUnbanned(c) ==
    /\ c \in CmdIds
    /\ cmds[c].kind = "unban"
    /\ cmds[c].pc = "unban"
    /\ cmds[c].muts[1].st # "sent"
    /\ IF cmds[c].muts[1].st = "fail"
       THEN /\ cmds' = [cmds EXCEPT ![c].pc = "done", ![c].out = "failed"]
            /\ UNCHANGED cases
       ELSE /\ cmds' = [cmds EXCEPT ![c].pc = "case", ![c].out = "ok"]
            /\ cases' = cases \cup
                 {MakeCase(cmds[c].userIds[1], ModId, "Unban", FALSE, "cmd", <<c, 1>>)}
    /\ last' = CmdStep(c)
    /\ UNCHANGED <<ignoredEvents, timers, nextId, consumed, expired, logs, ignoredLogs,
                   echoes, external>>
    /\ UNCHANGED storeVars

UnbanDone(c) ==
    /\ c \in CmdIds
    /\ cmds[c].kind = "unban"
    /\ cmds[c].pc = "case"
    /\ cmds' = [cmds EXCEPT ![c].pc = "done"]
    /\ logs' = logs \cup {LogEntry("MEMBER_UNBAN", cmds[c].userIds[1], ModId, 0)}
    /\ last' = CmdStep(c)
    /\ UNCHANGED <<ignoredEvents, timers, nextId, consumed, expired, cases, ignoredLogs,
                   echoes, external>>
    /\ UNCHANGED storeVars

\* ---- forceban

\* forcebanCmd up to the await of guild.banMember: the canActOn check for a
\* user who is a member, ignoreEvent, ignoreLog, the ban.
ForcebanCmd(u, allowed) ==
    /\ CanStart("forceban")
    /\ LET c == Len(cmds) + 1
           rec == NewCmd("forceban", <<u>>)
       IN  /\ IF ~allowed
              THEN /\ cmds' = Append(cmds, Denied(rec))
                   /\ UNCHANGED <<ignoredEvents, timers, nextId, ignoredLogs>>
              ELSE /\ ignoredEvents' = IgnoreEventPush(ignoredEvents, Ban, u, nextId)
                   /\ timers' = IgnoreEventTimer(timers, Ban, u, 0, nextId, nextId)
                   /\ nextId' = nextId + 1
                   /\ ignoredLogs' = ignoredLogs \cup {IgnoreLog("MEMBER_BAN", u, 0)}
                   /\ cmds' = Append(cmds, [Registered(Issue(rec, "ban", u), Ban, u)
                                              EXCEPT !.pc = "ban"])
           /\ last' = CmdStep(c)
    /\ UNCHANGED <<consumed, expired, cases, logs, echoes, external>>
    /\ UNCHANGED storeVars

\* guild.banMember returned: caught with "Failed to forceban member", or the
\* confirmation and fire("createCase"), awaited.
ForcebanBanned(c) ==
    /\ c \in CmdIds
    /\ cmds[c].kind = "forceban"
    /\ cmds[c].pc = "ban"
    /\ cmds[c].muts[1].st # "sent"
    /\ IF cmds[c].muts[1].st = "fail"
       THEN /\ cmds' = [cmds EXCEPT ![c].pc = "done", ![c].out = "failed"]
            /\ UNCHANGED cases
       ELSE /\ cmds' = [cmds EXCEPT ![c].pc = "case", ![c].out = "ok"]
            /\ cases' = cases \cup
                 {MakeCase(cmds[c].userIds[1], ModId, "Ban", FALSE, "cmd", <<c, 1>>)}
    /\ last' = CmdStep(c)
    /\ UNCHANGED <<ignoredEvents, timers, nextId, consumed, expired, logs, ignoredLogs,
                   echoes, external>>
    /\ UNCHANGED storeVars

ForcebanDone(c) ==
    /\ c \in CmdIds
    /\ cmds[c].kind = "forceban"
    /\ cmds[c].pc = "case"
    /\ cmds' = [cmds EXCEPT ![c].pc = "done"]
    /\ logs' = logs \cup {LogEntry("MEMBER_FORCEBAN", cmds[c].userIds[1], ModId, 0)}
    /\ last' = CmdStep(c)
    /\ UNCHANGED <<ignoredEvents, timers, nextId, consumed, expired, cases, ignoredLogs,
                   echoes, external>>
    /\ UNCHANGED storeVars

\* ---- massban

\* if (args.userIds.length > 100)
MASSBAN_LIMIT == 100

\* What the requester may answer to "Ban reason?".
ReplyContents == {"", "cancel", "CANCEL", " Cancel ", "cancel them", "spam", " "}

\* The replies waitForReply can give: none in time (got is FALSE), or a
\* message with its content.
Replies == {[got |-> FALSE, content |-> ""]} \cup
           {[got |-> TRUE, content |-> s] : s \in ReplyContents}

\* content.toLowerCase().trim() on the contents above.
ToLowerCaseTrim(content) ==
    CASE content = "" -> ""
      [] content = "cancel" -> "cancel"
      [] content = "CANCEL" -> "cancel"
      [] content = " Cancel " -> "cancel"
      [] content = "cancel them" -> "cancel them"
      [] content = "spam" -> "spam"
      [] content = " " -> ""

\* A check for the literal answer "cancel" only.
IsCancelledExact(reply) ==
    ~reply.got \/ reply.content = "" \/ reply.content = "cancel"

\* !banReasonReply || !banReasonReply.content ||
\* banReasonReply.content.toLowerCase().trim() === "cancel"
IsCancelled(reply) ==
    ~reply.got \/ reply.content = "" \/ ToLowerCaseTrim(reply.content) = "cancel"

\* A length check that turns away a list of exactly the limit.
TooManyAtLimit(userIds) == Len(userIds) >= MASSBAN_LIMIT

\* if (args.userIds.length > 100)
TooMany(userIds) == Len(userIds) > MASSBAN_LIMIT

\* A permission check that looks at the first target only.
MassbanCanActFirst(userIds, blocked) == Head(userIds) \notin blocked

\* for (const userId of args.userIds): the loop ends the command at the first
\* target that is a member and fails canActOn; blocked are those users.
RECURSIVE MassbanCanAct(_, _)
MassbanCanAct(userIds, blocked) ==
    IF userIds = <<>> THEN TRUE
    ELSE IF Head(userIds) \in blocked THEN FALSE
    ELSE MassbanCanAct(Tail(userIds), blocked)

\* A count of the bans that forgets the failed ones.
SuccessfulBanCountAll(rec) == Len(rec.userIds)

\* const successfulBanCount = args.userIds.length - failedBans.length
SuccessfulBanCount(rec) == Len(rec.userIds) - Len(rec.failedBans)

\* args.userIds.forEach(userId => this.ignoreEvent(Ban, userId, 120 * 1000)):
\* the ledger after it, and the timers after it.
RECURSIVE MassIgnorePush(_, _, _)
MassIgnorePush(events, userIds, id) ==
    IF userIds = <<>> THEN events
    ELSE MassIgnorePush(IgnoreEventPush(events, Ban, Head(userIds), id),
                        Tail(userIds), id + 1)

RECURSIVE MassIgnoreTimers(_, _, _, _)
MassIgnoreTimers(pending, userIds, id, at) ==
    IF userIds = <<>> THEN pending
    ELSE MassIgnoreTimers(IgnoreEventTimer(pending, Ban, Head(userIds), MASSBAN_TIMEOUT, id, at),
                          Tail(userIds), id + 1, at)

\* massbanCmd up to the await of waitForReply: the limit on the number of ids,
\* then the question for the reason.
MassbanCmd(userIds) ==
    /\ CanStart("massban")
    /\ cmds' = Append(cmds,
                 IF TooMany(userIds)
                 THEN [NewCmd("massban", userIds) EXCEPT !.pc = "done", !.out = "toomany"]
                 ELSE [NewCmd("massban", userIds) EXCEPT !.pc = "reply"])
    /\ last' = CmdStep(Len(cmds) + 1)
    /\ UNCHANGED <<ignoredEvents, timers, nextId, consumed, expired, cases, logs,
                   ignoredLogs, echoes, external>>
    /\ UNCHANGED storeVars

\* waitForReply returned: "Cancelled" without a usable reason; otherwise the
\* canActOn check of every target that is a member (blocked: the members it
\* fails for), the ignoreEvent and ignoreLog of every target, and the await of
\* "Banning...".
MassbanReplied(c, reply, blocked) ==
    /\ c \in CmdIds
    /\ cmds[c].kind = "massban"
    /\ cmds[c].pc = "reply"
    /\ IF IsCancelled(reply)
       THEN /\ cmds' = [cmds EXCEPT ![c].pc = "done", ![c].out = "cancelled",
                                    ![c].reply = reply]
            /\ UNCHANGED <<ignoredEvents, timers, nextId, ignoredLogs>>
       ELSE IF ~MassbanCanAct(cmds[c].userIds, blocked)
       THEN /\ cmds' = [cmds EXCEPT ![c] = [Denied(@) EXCEPT !.reply = reply,
                                                             !.blocked = blocked]]
            /\ UNCHANGED <<ignoredEvents, timers, nextId, ignoredLogs>>
       ELSE /\ ignoredEvents' = MassIgnorePush(ignoredEvents, cmds[c].userIds, nextId)
            /\ timers' = MassIgnoreTimers(timers, cmds[c].userIds, nextId, nextId)
            /\ nextId' = nextId + Len(cmds[c].userIds)
            /\ ignoredLogs' = ignoredLogs \cup
                 {IgnoreLog("MEMBER_BAN", u, MASSBAN_TIMEOUT) : u \in Range(cmds[c].userIds)}
            /\ cmds' = [cmds EXCEPT ![c].pc = "loading",
                                    ![c].reply = reply,
                                    ![c].blocked = blocked,
                                    ![c].reg = {<<Ban, u>> : u \in Range(cmds[c].userIds)}]
    /\ last' = CmdStep(c)
    /\ UNCHANGED <<consumed, expired, cases, logs, echoes, external>>
    /\ UNCHANGED storeVars

\* A ban loop that a failed ban ends.
MoreTargetsUnlessFailed(rec) == rec.i < Len(rec.userIds) /\ rec.failedBans = <<>>

\* for (const userId of args.userIds): is there a next target?
MoreTargets(rec) == rec.i < Len(rec.userIds)

\* The head of the ban loop and what follows the loop: the next banMember is
\* called and awaited, or, after the last target, the MASSBAN log entry and the
\* answer to the operator.
MassbanNext(c, rec) ==
    IF MoreTargets(rec)
    THEN /\ cmds' = [cmds EXCEPT ![c] =
                       [Issue(rec, "ban", rec.userIds[rec.i + 1])
                          EXCEPT !.i = rec.i + 1, !.pc = "ban"]]
         /\ UNCHANGED logs
    ELSE LET successfulBanCount == SuccessfulBanCount(rec) IN
         IF successfulBanCount = 0
         THEN /\ cmds' = [cmds EXCEPT ![c] = [rec EXCEPT !.pc = "done", !.out = "allfailed"]]
              /\ UNCHANGED logs
         ELSE /\ logs' = logs \cup {LogEntry("MASSBAN", "", ModId, successfulBanCount)}
              /\ cmds' = [cmds EXCEPT ![c] =
                            [rec EXCEPT !.pc = "done",
                                        !.out = IF Len(rec.failedBans) > 0
                                                THEN "partial" ELSE "ok"]]

\* createMessage("Banning...") returned: the loop starts.
MassbanLoaded(c) ==
    /\ c \in CmdIds
    /\ cmds[c].kind = "massban"
    /\ cmds[c].pc = "loading"
    /\ MassbanNext(c, cmds[c])
    /\ last' = CmdStep(c)
    /\ UNCHANGED <<ignoredEvents, timers, nextId, consumed, expired, cases, ignoredLogs,
                   echoes, external>>
    /\ UNCHANGED storeVars

\* guild.banMember returned: fire("createCase"), awaited, or, caught, the id
\* goes to failedBans and the loop goes on.
MassbanBanned(c) ==
    /\ c \in CmdIds
    /\ cmds[c].kind = "massban"
    /\ cmds[c].pc = "ban"
    /\ cmds[c].muts[cmds[c].i].st # "sent"
    /\ IF cmds[c].muts[cmds[c].i].st = "fail"
       THEN /\ MassbanNext(c, [cmds[c] EXCEPT
                                 !.failedBans = Append(@, cmds[c].userIds[cmds[c].i])])
            /\ UNCHANGED cases
       ELSE /\ cases' = cases \cup
                 {MakeCase(cmds[c].userIds[cmds[c].i], ModId, "Ban", FALSE, "cmd",
                           <<c, cmds[c].i>>)}
            /\ cmds' = [cmds EXCEPT ![c].pc = "case"]
            /\ UNCHANGED logs
    /\ last' = CmdStep(c)
    /\ UNCHANGED <<ignoredEvents, timers, nextId, consumed, expired, ignoredLogs, echoes, external>>
    /\ UNCHANGED storeVars

\* createCase returned: the loop goes on.
MassbanCased(c) ==
    /\ c \in CmdIds
    /\ cmds[c].kind = "massban"
    /\ cmds[c].pc = "case"
    /\ MassbanNext(c, cmds[c])
    /\ last' = CmdStep(c)
    /\ UNCHANGED <<ignoredEvents, timers, nextId, consumed, expired, cases, ignoredLogs,
                   echoes, external>>
    /\ UNCHANGED storeVars

\* ---- tryToMessageUser

\* The calls of tryToMessageUser explored one after the other.
MaxCalls == 2

\* configValue("message_channel"): not set, set to a channel the guild does
\* not have, or set to one it has.
MessageChannels == {"unset", "missing", "present"}

\* No call of tryToMessageUser has been made. calls are the calls made to the
\* transports, dmOk and channelOk whether a createMessage went through, n the
\* number of calls of tryToMessageUser so far.
NoCall ==
    [pc |-> "idle", user |-> "", useDM |-> FALSE, useChannel |-> FALSE,
     messageChannel |-> "unset", messageSent |-> FALSE, calls |-> <<>>,
     dmOk |-> FALSE, channelOk |-> FALSE, result |-> FALSE, n |-> 0]

\* Everything but the call of tryToMessageUser.
pluginVars == <<ignoredEvents, timers, nextId, consumed, expired, cases, logs,
                ignoredLogs, cmds, echoes, external, last, mutes, notes, runs>>

\* A tryToMessageUser that does not look at the switches.
NothingEnabledNever(useDM, useChannel) == FALSE

\* if (!useDM && !useChannel)
NothingEnabled(useDM, useChannel) == ~useDM /\ ~useChannel

\* A channel message sent only when the direct message was not.
UseChannelAfterFailure(rec) ==
    rec.useChannel /\ rec.messageChannel # "unset" /\ ~rec.messageSent

\* if (useChannel && this.configValue("message_channel"))
UseChannelNow(rec) == rec.useChannel /\ rec.messageChannel # "unset"

\* return messageSent
Returned(rec) == [rec EXCEPT !.pc = "returned", !.result = rec.messageSent]

\* tryToMessageUser from the second if: the channel message is sent and
\* awaited; a channel the guild does not have makes channel.createMessage
\* throw inside the try, and messageSent is returned.
ChannelPart(rec) ==
    IF UseChannelNow(rec)
    THEN IF rec.messageChannel = "present"
         THEN [rec EXCEPT !.pc = "channel",
                          !.calls = @ \o <<"channels.get", "channel.createMessage">>]
         ELSE Returned([rec EXCEPT !.calls = Append(@, "channels.get")])
    ELSE Returned(rec)

\* tryToMessageUser up to its first await or its return.
TryToMessageUser(user, useDM, useChannel, messageChannel) ==
    /\ notify.pc \in {"idle", "returned"}
    /\ notify.n < MaxCalls
    /\ LET rec == [NoCall EXCEPT !.user = user, !.useDM = useDM, !.useChannel = useChannel,
                                 !.messageChannel = messageChannel, !.n = notify.n + 1]
       IN  notify' = IF NothingEnabled(useDM, useChannel)
                     THEN [rec EXCEPT !.pc = "returned", !.result = TRUE]
                     ELSE IF useDM
                     THEN [rec EXCEPT !.pc = "dmChannel", !.calls = <<"getDMChannel">>]
                     ELSE ChannelPart(rec)
    /\ UNCHANGED pluginVars

\* getDMChannel returned the channel, or threw into the catch.
DMChannelGot(ok) ==
    /\ notify.pc = "dmChannel"
    /\ notify' = IF ok
                 THEN [notify EXCEPT !.pc = "dm", !.calls = Append(@, "dmChannel.createMessage")]
                 ELSE ChannelPart(notify)
    /\ UNCHANGED pluginVars

\* dmChannel.createMessage returned, or threw into the catch.
DMSent(ok) ==
    /\ notify.pc = "dm"
    /\ notify' = ChannelPart([notify EXCEPT !.messageSent = IF ok THEN TRUE ELSE @,
                                            !.dmOk = ok])
    /\ UNCHANGED pluginVars

\* channel.createMessage returned, or threw into the catch.
ChannelSent(ok) ==
    /\ notify.pc = "channel"
    /\ notify' = Returned([notify EXCEPT !.messageSent = IF ok THEN TRUE ELSE @,
                                         !.channelOk = ok])
    /\ UNCHANGED pluginVars

\* ---- mute

\* The mute commands explored together.
MaxMutes == 2

\* args.time: absent, a delay string, or text that is no delay string.
Times == {"none", "valid", "invalid"}

\* mute.case_id of a MuteState no case has been recorded on.
NoCase == <<>>

\* The mute store has no live MuteState for the user.
NoMute == [live |-> FALSE, caseId |-> NoCase, timed |-> FALSE]

\* The mute store's upsert behind fire("mute"): a live MuteState is updated
\* (its expiry), one is created, without case id, when there is none.
UpsertMute(store, userId, muteTime) ==
    [store EXCEPT ![userId] = [live |-> TRUE,
                               caseId |-> IF @.live THEN @.caseId ELSE NoCase,
                               timed |-> muteTime]]

\* this.mutes.setCaseId(userId, caseId)
SetCaseId(store, userId, caseId) ==
    IF store[userId].live THEN [store EXCEPT ![userId].caseId = caseId] ELSE store

\* A muteCmd that never finds an old case.
HasOldCaseNever(mute) == FALSE

\* const hasOldCase = mute.case_id != null
HasOldCase(mute) == mute.caseId # NoCase

\* The locals of a muteCmd: reason is args.reason after the invalid time has
\* been moved into it, muteTime whether there is a mute time, pre the
\* MuteState of the member when the command came, mute the MuteState
\* fire("mute") returned.
NewMute(u, reason, muteTime) ==
    [kind |-> "mute", userIds |-> <<u>>, pc |-> "start", messageSent |-> TRUE,
     muts |-> <<>>, failedBans |-> <<>>, i |-> 0, out |-> "", reg |-> {},
     reply |-> [got |-> FALSE, content |-> ""], blocked |-> {},
     reason |-> reason, muteTime |-> muteTime, pre |-> mutes[u], mute |-> NoMute,
     notified |-> FALSE]

\* muteCmd from "Confirm the action to the moderator": the response and the log.
MuteFinish(c, rec) ==
    /\ cmds' = [cmds EXCEPT ![c] =
                  [rec EXCEPT !.pc = "done",
                              !.out = IF rec.messageSent THEN "ok" ELSE "ok_unnotified"]]
    /\ logs' = logs \cup {LogEntry("MEMBER_MUTE", rec.userIds[1], ModId, 0)}

\* muteCmd after the case or the note: with a reason and no old case the
\* member is told, tryToMessageUser is awaited; otherwise the command ends.
MuteNotify(c, rec) ==
    IF rec.reason /\ ~HasOldCase(rec.mute)
    THEN /\ cmds' = [cmds EXCEPT ![c] = [rec EXCEPT !.pc = "notify", !.notified = TRUE]]
         /\ UNCHANGED logs
    ELSE MuteFinish(c, rec)

\* muteCmd up to the await of fire("mute"): the mute_role and canActOn checks,
\* the mute time, ignoreLog.
MuteCmd(u, hasRole, allowed, time, reason) ==
    /\ Len(cmds) < MaxMutes
    /\ LET rec == NewMute(u, reason \/ time = "invalid", time = "valid") IN
       IF ~hasRole
       THEN /\ cmds' = Append(cmds, [rec EXCEPT !.pc = "done", !.out = "norole"])
            /\ UNCHANGED ignoredLogs
       ELSE IF ~allowed
       THEN /\ cmds' = Append(cmds, Denied(rec))
            /\ UNCHANGED ignoredLogs
       ELSE /\ cmds' = Append(cmds, [rec EXCEPT !.pc = "mute"])
            /\ ignoredLogs' = ignoredLogs \cup {IgnoreLog("MEMBER_ROLE_ADD", u, 0)}
    /\ last' = CmdStep(Len(cmds) + 1)
    /\ UNCHANGED <<ignoredEvents, timers, nextId, consumed, expired, cases, logs,
                   echoes, external, mutes, notes, notify, runs>>

\* fire("mute") returned: nothing ("Could not mute the user") or the MuteState;
\* with an old case and a reason fire("createCaseNote"), with an old case and
\* no reason the end of the command, without old case fire("createCase").
MuteApplied(c, ok) ==
    /\ c \in CmdIds
    /\ cmds[c].kind = "mute"
    /\ cmds[c].pc = "mute"
    /\ LET u == cmds[c].userIds[1]
           store == UpsertMute(mutes, u, cmds[c].muteTime)
           rec == [cmds[c] EXCEPT !.mute = store[u]]
       IN  IF ~ok
           THEN /\ cmds' = [cmds EXCEPT ![c].pc = "done", ![c].out = "failed"]
                /\ UNCHANGED <<mutes, notes, cases, logs>>
           ELSE /\ mutes' = store
                /\ IF HasOldCase(rec.mute)
                   THEN IF rec.reason
                        THEN /\ notes' = notes \cup
                                  {[caseId |-> rec.mute.caseId, modId |-> ModId, cmd |-> c]}
                             /\ cmds' = [cmds EXCEPT ![c] = [rec EXCEPT !.pc = "note"]]
                             /\ UNCHANGED <<cases, logs>>
                        ELSE /\ MuteNotify(c, rec)
                             /\ UNCHANGED <<cases, notes>>
                   ELSE /\ cases' = cases \cup {MakeCase(u, ModId, "Mute", FALSE, "cmd", <<c, 1>>)}
                        /\ cmds' = [cmds EXCEPT ![c] = [rec EXCEPT !.pc = "case"]]
                        /\ UNCHANGED <<notes, logs>>
    /\ last' = CmdStep(c)
    /\ UNCHANGED <<ignoredEvents, timers, nextId, consumed, expired, ignoredLogs,
                   echoes, external, notify, runs>>

\* fire("createCaseNote") returned.
MuteNoted(c) ==
    /\ c \in CmdIds
    /\ cmds[c].kind = "mute"
    /\ cmds[c].pc = "note"
    /\ MuteNotify(c, cmds[c])
    /\ last' = CmdStep(c)
    /\ UNCHANGED <<ignoredEvents, timers, nextId, consumed, expired, cases, ignoredLogs,
                   echoes, external, mutes, notes, notify, runs>>

\* fire("createCase") returned theCase: this.mutes.setCaseId is called.
MuteCased(c) ==
    /\ c \in CmdIds
    /\ cmds[c].kind = "mute"
    /\ cmds[c].pc = "case"
    /\ cmds' = [cmds EXCEPT ![c].pc = "link"]
    /\ last' = CmdStep(c)
    /\ UNCHANGED <<ignoredEvents, timers, nextId, consumed, expired, cases, logs,
                   ignoredLogs, echoes, external, mutes, notes, notify, runs>>

\* setCaseId has written the case id and returned.
MuteLinked(c) ==
    /\ c \in CmdIds
    /\ cmds[c].kind = "mute"
    /\ cmds[c].pc = "link"
    /\ mutes' = SetCaseId(mutes, cmds[c].userIds[1], <<c, 1>>)
    /\ MuteNotify(c, cmds[c])
    /\ last' = CmdStep(c)
    /\ UNCHANGED <<ignoredEvents, timers, nextId, consumed, expired, cases, ignoredLogs,
                   echoes, external, notes, notify, runs>>

\* tryToMessageUser returned messageSent.
MuteNotified(c, sent) ==
    /\ c \in CmdIds
    /\ cmds[c].kind = "mute"
    /\ cmds[c].pc = "notify"
    /\ MuteFinish(c, [cmds[c] EXCEPT !.messageSent = sent])
    /\ last' = CmdStep(c)
    /\ UNCHANGED <<ignoredEvents, timers, nextId, consumed, expired, cases, ignoredLogs,
                   echoes, external, mutes, notes, notify, runs>>

\* ---- warn

\* The reaction waitForReaction gives back: none in time, or one of the two
\* offered.
Reactions ==
    {[got |-> FALSE, content |-> ""], [got |-> TRUE, content |-> "check"],
     [got |-> TRUE, content |-> "cross"]}

\* A warnCmd that gives up only on the cross.
WarnDroppedOnCrossOnly(reply) == reply.got /\ reply.content = "cross"

\* if (!reply || reply.name === "cross")
WarnDropped(reply) == ~reply.got \/ reply.content = "cross"

\* warnCmd from fire("createCase") to its await.
WarnCase(c, rec) ==
    /\ cases' = cases \cup {MakeCase(rec.userIds[1], ModId, "Warn", FALSE, "cmd", <<c, 1>>)}
    /\ cmds' = [cmds EXCEPT ![c] = [rec EXCEPT !.pc = "case"]]

\* warnCmd up to the await of tryToMessageUser: the canActOn check.
WarnCmd(u, allowed) ==
    /\ Len(cmds) < MaxMutes
    /\ cmds' = Append(cmds, IF allowed
                            THEN [NewCmd("warn", <<u>>) EXCEPT !.pc = "notify"]
                            ELSE Denied(NewCmd("warn", <<u>>)))
    /\ last' = CmdStep(Len(cmds) + 1)
    /\ UNCHANGED <<ignoredEvents, timers, nextId, consumed, expired, cases, logs,
                   ignoredLogs, echoes, external>>
    /\ UNCHANGED storeVars

\* tryToMessageUser returned messageSent: the case is made, or the requester
\* is asked "Log the warning anyway?" and the reaction awaited.
WarnNotified(c, sent) ==
    /\ c \in CmdIds
    /\ cmds[c].kind = "warn"
    /\ cmds[c].pc = "notify"
    /\ IF sent
       THEN WarnCase(c, cmds[c])
       ELSE /\ cmds' = [cmds EXCEPT ![c].pc = "ask", ![c].messageSent = FALSE]
            /\ UNCHANGED cases
    /\ last' = CmdStep(c)
    /\ UNCHANGED <<ignoredEvents, timers, nextId, consumed, expired, logs, ignoredLogs,
                   echoes, external>>
    /\ UNCHANGED storeVars

\* waitForReaction returned: without a reaction or with the cross the command
\* returns, with the check mark the case is made.
WarnReacted(c, reply) ==
    /\ c \in CmdIds
    /\ cmds[c].kind = "warn"
    /\ cmds[c].pc = "ask"
    /\ IF WarnDropped(reply)
       THEN /\ cmds' = [cmds EXCEPT ![c].pc = "done", ![c].out = "dropped",
                                    ![c].reply = reply]
            /\ UNCHANGED cases
       ELSE WarnCase(c, [cmds[c] EXCEPT !.reply = reply])
    /\ last' = CmdStep(c)
    /\ UNCHANGED <<ignoredEvents, timers, nextId, consumed, expired, logs, ignoredLogs,
                   echoes, external>>
    /\ UNCHANGED storeVars

\* createCase returned: "Warned ..." and the log entry.
WarnDone(c) ==
    /\ c \in CmdIds
    /\ cmds[c].kind = "warn"
    /\ cmds[c].pc = "case"
    /\ cmds' = [cmds EXCEPT ![c].pc = "done", ![c].out = "ok"]
    /\ logs' = logs \cup {LogEntry("MEMBER_WARN", cmds[c].userIds[1], ModId, 0)}
    /\ last' = CmdStep(c)
    /\ UNCHANGED <<ignoredEvents, timers, nextId, consumed, expired, cases, ignoredLogs,
                   echoes, external>>
    /\ UNCHANGED storeVars

\* ---- unmute

\* The mute store's clearMute behind fire("unmute") without a time.
ClearMute(store, userId) == [store EXCEPT ![userId] = NoMute]

\* unmuteCmd up to the await of findExistingMuteForUserId: the mute_role and
\* canActOn checks.
UnmuteCmd(u, hasRole, allowed, time, reason) ==
    /\ Len(cmds) < MaxMutes
    /\ LET rec == NewMute(u, reason \/ time = "invalid", time = "valid") IN
       cmds' = Append(cmds, IF ~hasRole THEN [rec EXCEPT !.kind = "unmute", !.pc = "done",
                                                         !.out = "norole"]
                            ELSE IF ~allowed THEN Denied([rec EXCEPT !.kind = "unmute"])
                            ELSE [rec EXCEPT !.kind = "unmute", !.pc = "find"])
    /\ last' = CmdStep(Len(cmds) + 1)
    /\ UNCHANGED <<ignoredEvents, timers, nextId, consumed, expired, cases, logs,
                   ignoredLogs, echoes, external>>
    /\ UNCHANGED storeVars

\* findExistingMuteForUserId returned: "member is not muted", or, with a time,
\* fire("unmute") with it, or, without, ignoreLog and fire("unmute").
UnmuteFound(c) ==
    /\ c \in CmdIds
    /\ cmds[c].kind = "unmute"
    /\ cmds[c].pc = "find"
    /\ LET u == cmds[c].userIds[1] IN
       IF ~mutes[u].live
       THEN /\ cmds' = [cmds EXCEPT ![c].pc = "done", ![c].out = "notmuted"]
            /\ UNCHANGED ignoredLogs
       ELSE /\ cmds' = [cmds EXCEPT ![c].pc = "unmute", ![c].mute = mutes[u]]
            /\ ignoredLogs' = IF cmds[c].muteTime THEN ignoredLogs
                              ELSE ignoredLogs \cup {IgnoreLog("MEMBER_ROLE_REMOVE", u, 0)}
    /\ last' = CmdStep(c)
    /\ UNCHANGED <<ignoredEvents, timers, nextId, consumed, expired, cases, logs,
                   echoes, external>>
    /\ UNCHANGED storeVars

\* fire("unmute") returned: the confirmation and fire("createCase"), awaited.
UnmuteApplied(c) ==
    /\ c \in CmdIds
    /\ cmds[c].kind = "unmute"
    /\ cmds[c].pc = "unmute"
    /\ LET u == cmds[c].userIds[1] IN
       /\ mutes' = IF cmds[c].muteTime THEN UpsertMute(mutes, u, TRUE) ELSE ClearMute(mutes, u)
       /\ cases' = cases \cup {MakeCase(u, ModId, "Unmute", FALSE, "cmd", <<c, 1>>)}
    /\ cmds' = [cmds EXCEPT ![c].pc = "case"]
    /\ last' = CmdStep(c)
    /\ UNCHANGED <<ignoredEvents, timers, nextId, consumed, expired, logs, ignoredLogs,
                   echoes, external, notes, notify, runs>>

\* createCase returned: the log entry.
UnmuteDone(c) ==
    /\ c \in CmdIds
    /\ cmds[c].kind = "unmute"
    /\ cmds[c].pc = "case"
    /\ cmds' = [cmds EXCEPT ![c].pc = "done", ![c].out = "ok"]
    /\ logs' = logs \cup {LogEntry("MEMBER_UNMUTE", cmds[c].userIds[1], ModId, 0)}
    /\ last' = CmdStep(c)
    /\ UNCHANGED <<ignoredEvents, timers, nextId, consumed, expired, cases, ignoredLogs,
                   echoes, external>>
    /\ UNCHANGED storeVars

\* ------------------------------------------------------------ censor plugin

\* msg.content of the messages explored.
Contents ==
    {"", "hi", "bad idea", "discord.gg/abc", "discord.gg/xyz discord.gg/abc",
     "evil.com badword", "discord.gg/abc evil.com badword"}

\* msg.type: 0 is a default message, 7 one of the others.
MsgTypes == {0, 7}

MsgIds == {"m1", "m2"}

\* getInviteCodesInString(str): the codes after discord.gg/ or
\* discordapp.com/invite/, in the order they stand in the string.
GetInviteCodesInString(str) ==
    CASE str = "discord.gg/abc" -> <<"abc">>
      [] str = "discord.gg/xyz discord.gg/abc" -> <<"xyz", "abc">>
      [] str = "discord.gg/abc evil.com badword" -> <<"abc">>
      [] OTHER -> <<>>

\* getUrlsInString(str): the hostnames of the words with a dot in them whose
\* last label is a top-level domain, in the order they stand in the string.
GetUrlsInString(str) ==
    CASE str = "discord.gg/abc" -> <<"discord.gg">>
      [] str = "discord.gg/xyz discord.gg/abc" -> <<"discord.gg", "discord.gg">>
      [] str = "evil.com badword" -> <<"evil.com">>
      [] str = "discord.gg/abc evil.com badword" -> <<"discord.gg", "evil.com">>
      [] OTHER -> <<>>

\* this.bot.getInvite(code), resolved: the invite with its guild.
GetInvite(code) == [code |-> code, guild |-> IF code = "abc" THEN "g1" ELSE "g2"]

\* msg.content.includes(token)
Includes(content, token) ==
    CASE token = "bad" -> content \in {"bad idea", "evil.com badword",
                                       "discord.gg/abc evil.com badword"}
      [] token = "word" -> content \in {"evil.com badword", "discord.gg/abc evil.com badword"}
      [] OTHER -> FALSE

\* new RegExp(`\\b${escapeStringRegexp(word)}\\b`, "i").test(msg.content)
WordTest(content, word) ==
    CASE word = "bad" -> content = "bad idea"
      [] word = "BadWord" -> content \in {"evil.com badword", "discord.gg/abc evil.com badword"}
      [] OTHER -> FALSE

\* new RegExp(regexStr).test(msg.content)
RegexTest(content, regexStr) ==
    CASE regexStr = "^evil" -> content = "evil.com badword"
      [] regexStr = "b.d" -> content \in {"bad idea", "evil.com badword",
                                          "discord.gg/abc evil.com badword"}
      [] OTHER -> FALSE

\* A list of the configuration: null, or an array with these items.
Null == [set |-> FALSE, items |-> {}]
List(items) == [set |-> TRUE, items |-> items]

\* configValueForMsg(msg, ...) of the eleven options; a blocked_ list that is
\* null is the empty array (|| []).
Configs ==
    [filter_invites : BOOLEAN,
     invite_guild_whitelist : {Null, List({"g1"})},
     invite_guild_blacklist : {Null, List({"g2"})},
     invite_code_whitelist : {Null, List({"abc"})},
     invite_code_blacklist : {Null, List({"abc"})},
     filter_domains : BOOLEAN,
     domain_whitelist : {Null, List({"discord.gg"})},
     domain_blacklist : {Null, List({"evil.com"})},
     blocked_tokens : {<<>>, <<"word", "bad">>},
     blocked_words : {<<>>, <<"bad", "BadWord">>},
     blocked_regex : {<<>>, <<"^evil", "b.d">>}]

\* The messages with one of these ids.
Messages(ids) ==
    [id : ids, bot : BOOLEAN, type : MsgTypes, content : Contents]

\* No rule has matched.
NoReason == [rule |-> "", item |-> ""]

\* The reason given to censorMessage: the rule and what it found.
Reason(rule, item) == [rule |-> rule, item |-> item]

\* The four checks of one invite, in their order.
InviteCheck(invite, cfg) ==
    IF cfg.invite_guild_whitelist.set /\ invite.guild \notin cfg.invite_guild_whitelist.items
    THEN Reason("invite guild not found in whitelist", invite.guild)
    ELSE IF cfg.invite_guild_blacklist.set /\ invite.guild \in cfg.invite_guild_blacklist.items
    THEN Reason("invite guild found in blacklist", invite.guild)
    ELSE IF cfg.invite_code_whitelist.set /\ invite.code \notin cfg.invite_code_whitelist.items
    THEN Reason("invite code not found in whitelist", invite.code)
    ELSE IF cfg.invite_code_blacklist.set /\ invite.code \in cfg.invite_code_blacklist.items
    THEN Reason("invite code found in blacklist", invite.code)
    ELSE NoReason

\* for (const invite of invites): the first check of the first invite that
\* fails one.
RECURSIVE FilterInvites(_, _)
FilterInvites(invites, cfg) ==
    IF invites = <<>> THEN NoReason
    ELSE IF InviteCheck(Head(invites), cfg) # NoReason THEN InviteCheck(Head(invites), cfg)
    ELSE FilterInvites(Tail(invites), cfg)

\* The two checks of one url.
DomainCheck(hostname, cfg) ==
    IF cfg.domain_whitelist.set /\ hostname \notin cfg.domain_whitelist.items
    THEN Reason("domain not found in whitelist", hostname)
    ELSE IF cfg.domain_blacklist.set /\ hostname \in cfg.domain_blacklist.items
    THEN Reason("domain found in blacklist", hostname)
    ELSE NoReason

\* for (const thisUrl of urls)
RECURSIVE FilterDomains(_, _)
FilterDomains(urls, cfg) ==
    IF urls = <<>> THEN NoReason
    ELSE IF DomainCheck(Head(urls), cfg) # NoReason THEN DomainCheck(Head(urls), cfg)
    ELSE FilterDomains(Tail(urls), cfg)

\* for (const token of blockedTokens)
RECURSIVE FilterTokens(_, _)
FilterTokens(blockedTokens, content) ==
    IF blockedTokens = <<>> THEN NoReason
    ELSE IF Includes(content, Head(blockedTokens))
    THEN Reason("blocked token found", Head(blockedTokens))
    ELSE FilterTokens(Tail(blockedTokens), content)

\* for (const word of blockedWords)
RECURSIVE FilterWords(_, _)
FilterWords(blockedWords, content) ==
    IF blockedWords = <<>> THEN NoReason
    ELSE IF WordTest(content, Head(blockedWords))
    THEN Reason("blocked word found", Head(blockedWords))
    ELSE FilterWords(Tail(blockedWords), content)

\* for (const regexStr of blockedRegex)
RECURSIVE FilterRegex(_, _)
FilterRegex(blockedRegex, content) ==
    IF blockedRegex = <<>> THEN NoReason
    ELSE IF RegexTest(content, Head(blockedRegex))
    THEN Reason("blocked regex found", Head(blockedRegex))
    ELSE FilterRegex(Tail(blockedRegex), content)

\* An applyFiltersToMsg that looks at the blocked tokens before the domains.
FilterRestTokensFirst(msg, cfg) ==
    LET domains == IF cfg.filter_domains
                   THEN FilterDomains(GetUrlsInString(msg.content), cfg) ELSE NoReason
        tokens == FilterTokens(cfg.blocked_tokens, msg.content)
        words == FilterWords(cfg.blocked_words, msg.content)
        regex == FilterRegex(cfg.blocked_regex, msg.content)
    IN  IF tokens # NoReason THEN tokens
        ELSE IF domains # NoReason THEN domains
        ELSE IF words # NoReason THEN words
        ELSE regex

\* applyFiltersToMsg from "Filter domains" on: the reason of the first
\* censorMessage call met, NoReason when the end is reached.
FilterRest(msg, cfg) ==
    LET domains == IF cfg.filter_domains
                   THEN FilterDomains(GetUrlsInString(msg.content), cfg) ELSE NoReason
        tokens == FilterTokens(cfg.blocked_tokens, msg.content)
        words == FilterWords(cfg.blocked_words, msg.content)
        regex == FilterRegex(cfg.blocked_regex, msg.content)
    IN  IF domains # NoReason THEN domains
        ELSE IF tokens # NoReason THEN tokens
        ELSE IF words # NoReason THEN words
        ELSE regex

\* A call of applyFiltersToMsg: calls counts its censorMessage calls, del is
\* the state of the msg.delete of censorMessage.
NewRun(event, msg, cfg) ==
    [event |-> event, msg |-> msg, cfg |-> cfg, pc |-> "start", reason |-> NoReason,
     calls |-> 0, del |-> "none", out |-> ""]

RunIds == 1..Len(runs)

\* Run r with its record replaced; r may be the run being started.
RunsWith(r, rec) ==
    IF r = Len(runs) + 1 THEN Append(runs, rec) ELSE [runs EXCEPT ![r] = rec]

\* serverLogs.log(LogType.CENSOR, ...); run names the call that logged.
CensorEntry(rec, r) ==
    [type |-> "CENSOR", msg |-> rec.msg.id, reason |-> rec.reason,
     messageText |-> rec.msg.content, run |-> r]

\* censorMessage up to the await of msg.delete: ignoreLog, then the delete.
CensorMessage(r, rec, reason) ==
    /\ ignoredLogs' = ignoredLogs \cup {IgnoreLog("MESSAGE_DELETE", rec.msg.id, 0)}
    /\ runs' = RunsWith(r, [rec EXCEPT !.pc = "delete", !.reason = reason,
                                       !.calls = @ + 1, !.del = "sent"])

\* applyFiltersToMsg from "Filter domains" on: censorMessage is called for
\* the first rule that matches and the function returns, or it returns at its
\* end.
ApplyRest(r, rec) ==
    IF FilterRest(rec.msg, rec.cfg) # NoReason
    THEN CensorMessage(r, rec, FilterRest(rec.msg, rec.cfg))
    ELSE /\ runs' = RunsWith(r, [rec EXCEPT !.pc = "done", !.out = "clean"])
         /\ UNCHANGED ignoredLogs

\* applyFiltersToMsg up to its first await or its return: the three early
\* returns, then, with filter_invites, the await of the getInvite calls.
ApplyFiltersToMsg(event, msg, cfg) ==
    /\ LET r == Len(runs) + 1
           rec == NewRun(event, msg, cfg)
       IN  IF msg.bot \/ msg.type # 0 \/ msg.content = ""
           THEN /\ runs' = Append(runs, [rec EXCEPT !.pc = "done", !.out = "skipped"])
                /\ UNCHANGED ignoredLogs
           ELSE IF cfg.filter_invites
           THEN /\ runs' = Append(runs, [rec EXCEPT !.pc = "invites"])
                /\ UNCHANGED ignoredLogs
           ELSE ApplyRest(r, rec)
    /\ last' = Step("censor", 0, "", FALSE, FALSE, 0)
    /\ UNCHANGED <<ignoredEvents, timers, nextId, consumed, expired, cases, logs,
                   cmds, echoes, external, mutes, notes, notify>>

\* @d.event("messageCreate")
OnMessageCreate(msg, cfg) == ApplyFiltersToMsg("messageCreate", msg, cfg)

\* @d.event("messageUpdate")
OnMessageUpdate(msg, cfg) == ApplyFiltersToMsg("messageUpdate", msg, cfg)

\* Promise.all of the getInvite calls returned: a rejected call ends the
\* function with the exception; otherwise the invites are checked and then
\* the rest.
InvitesGot(r, ok) ==
    /\ r \in RunIds
    /\ runs[r].pc = "invites"
    /\ ok \/ GetInviteCodesInString(runs[r].msg.content) # <<>>
    /\ LET codes == GetInviteCodesInString(runs[r].msg.content)
           invites == [k \in 1..Len(codes) |-> GetInvite(codes[k])]
       IN  IF ~ok
           THEN /\ runs' = [runs EXCEPT ![r].pc = "done", ![r].out = "threw"]
                /\ UNCHANGED ignoredLogs
           ELSE IF FilterInvites(invites, runs[r].cfg) # NoReason
           THEN CensorMessage(r, runs[r], FilterInvites(invites, runs[r].cfg))
           ELSE ApplyRest(r, runs[r])
    /\ last' = Step("censor", 0, "", FALSE, FALSE, 0)
    /\ UNCHANGED <<ignoredEvents, timers, nextId, consumed, expired, cases, logs,
                   cmds, echoes, external, mutes, notes, notify>>

\* A censorMessage that logs whatever msg.delete did.
DeleteLogsAlways(ok) == TRUE

\* try { await msg.delete("Censored") } catch (e) { return }
DeleteLogs(ok) == ok

\* msg.delete returned or threw: the CENSOR log entry after a delete that went
\* through, nothing after one that did not.
DeleteReturned(r, ok) ==
    /\ r \in RunIds
    /\ runs[r].pc = "delete"
    /\ runs' = [runs EXCEPT ![r].pc = "done", ![r].del = IF ok THEN "ok" ELSE "fail",
                            ![r].out = IF ok THEN "censored" ELSE "deletefailed"]
    /\ logs' = IF DeleteLogs(ok) THEN logs \cup {CensorEntry(runs[r], r)} ELSE logs
    /\ last' = Step("censor", 0, "", FALSE, FALSE, 0)
    /\ UNCHANGED <<ignoredEvents, timers, nextId, consumed, expired, cases, ignoredLogs,
                   cmds, echoes, external, mutes, notes, notify>>

\* ------------------------------------------------------------ specification

\* The userIds lists massban is given.
TargetLists == UNION {[1..n -> Users] : n \in 1..MaxTargets}

\* onLoad: this.ignoredEvents = []
Init ==
    /\ ignoredEvents = <<>>
    /\ timers = <<>>
    /\ nextId = 1
    /\ consumed = {}
    /\ expired = {}
    /\ cases = {}
    /\ logs = {}
    /\ ignoredLogs = {}
    /\ cmds = <<>>
    /\ echoes = {}
    /\ external = 0
    /\ last = Step("init", 0, "", FALSE, FALSE, 0)
    /\ mutes = [u \in Users |-> NoMute]
    /\ notes = {}
    /\ notify = NoCall
    /\ runs = <<>>

Next ==
    \/ \E u \in Users, allowed \in BOOLEAN, reason \in BOOLEAN : KickCmd(u, allowed, reason)
    \/ \E c \in CmdIds, sent \in BOOLEAN : KickNotified(c, sent)
    \/ \E c \in CmdIds : KickDone(c)
    \/ \E u \in Users, allowed \in BOOLEAN, reason \in BOOLEAN : BanCmd(u, allowed, reason)
    \/ \E c \in CmdIds, sent \in BOOLEAN : BanNotified(c, sent)
    \/ \E c \in CmdIds : BanDone(c)
    \/ \E u \in Users, allowed \in BOOLEAN : SoftbanCmd(u, allowed)
    \/ \E c \in CmdIds : SoftbanBanned(c)
    \/ \E c \in CmdIds : SoftbanUnbanned(c)
    \/ \E c \in CmdIds : SoftbanDone(c)
    \/ \E u \in Users : UnbanCmd(u)
    \/ \E c \in CmdIds : UnbanUnbanned(c)
    \/ \E c \in CmdIds : UnbanDone(c)
    \/ \E u \in Users, allowed \in BOOLEAN : ForcebanCmd(u, allowed)
    \/ \E c \in CmdIds : ForcebanBanned(c)
    \/ \E c \in CmdIds : ForcebanDone(c)
    \/ \E userIds \in TargetLists : MassbanCmd(userIds)
    \/ \E c \in CmdIds, reply \in Replies, blocked \in SUBSET Users :
          MassbanReplied(c, reply, blocked)
    \/ \E c \in CmdIds : MassbanLoaded(c)
    \/ \E c \in CmdIds : MassbanBanned(c)
    \/ \E c \in CmdIds : MassbanCased(c)
    \/ \E c \in CmdIds, ok \in BOOLEAN : \E n \in 1..Len(cmds[c].muts) : PlatformApply(c, n, ok)
    \/ \E e \in echoes, found \in BOOLEAN : OnEcho(e, found)
    \/ \E type \in IgnoredEventTypes, u \in Users, found \in BOOLEAN : OnExternal(type, u, found)
    \/ \E i \in 1..Len(timers) : FireTimer(i)

Spec == Init /\ [][Next]_vars

\* The longest massban list whose bans are carried out.
MaxBatch == 3

\* The userIds lists of a massban on its own: the short ones, one of exactly
\* the limit and one of one more.
BatchLists ==
    UNION {[1..n -> Users] : n \in 1..MaxBatch}
      \cup {[k \in 1..MASSBAN_LIMIT |-> "u1"], [k \in 1..(MASSBAN_LIMIT + 1) |-> "u1"]}

\* A massban on its own, with the gateway events and the timers. The bans of
\* the list of the limit's length are not carried out: its requester cancels
\* or is refused.
NextMassban ==
    \/ \E userIds \in BatchLists : MassbanCmd(userIds)
    \/ \E c \in CmdIds, reply \in Replies, blocked \in SUBSET Users :
          /\ Len(cmds[c].userIds) > MaxBatch
                => (IsCancelled(reply) \/ ~MassbanCanAct(cmds[c].userIds, blocked))
          /\ MassbanReplied(c, reply, blocked)
    \/ \E c \in CmdIds : MassbanLoaded(c)
    \/ \E c \in CmdIds : MassbanBanned(c)
    \/ \E c \in CmdIds : MassbanCased(c)
    \/ \E c \in CmdIds, ok \in BOOLEAN : \E n \in 1..Len(cmds[c].muts) : PlatformApply(c, n, ok)
    \/ \E e \in echoes, found \in BOOLEAN : OnEcho(e, found)
    \/ \E type \in IgnoredEventTypes, u \in Users, found \in BOOLEAN : OnExternal(type, u, found)
    \/ \E i \in 1..Len(timers) : FireTimer(i)

SpecMassban == Init /\ [][NextMassban]_vars

\* tryToMessageUser alone.
NextNotify ==
    \/ \E user \in Users, useDM \in BOOLEAN, useChannel \in BOOLEAN,
          messageChannel \in MessageChannels :
          TryToMessageUser(user, useDM, useChannel, messageChannel)
    \/ \E ok \in BOOLEAN : DMChannelGot(ok)
    \/ \E ok \in BOOLEAN : DMSent(ok)
    \/ \E ok \in BOOLEAN : ChannelSent(ok)

SpecNotify == Init /\ [][NextNotify]_vars

\* The mute commands alone.
NextMute ==
    \/ \E u \in Users, hasRole \in BOOLEAN, allowed \in BOOLEAN, time \in Times,
          reason \in BOOLEAN : MuteCmd(u, hasRole, allowed, time, reason)
    \/ \E c \in CmdIds, ok \in BOOLEAN : MuteApplied(c, ok)
    \/ \E c \in CmdIds : MuteNoted(c)
    \/ \E c \in CmdIds : MuteCased(c)
    \/ \E c \in CmdIds : MuteLinked(c)
    \/ \E c \in CmdIds, sent \in BOOLEAN : MuteNotified(c, sent)

SpecMute == Init /\ [][NextMute]_vars

\* The commands that leave the ledger alone.
MuteKinds == {"warn", "mute", "unmute"}

\* A warn, mute or unmute is started beside a command of another kind only to
\* be refused.
CanStartBeside(allowed) ==
    /\ Len(cmds) + external < MaxLoad
    /\ ~allowed \/ \A c \in CmdIds : cmds[c].kind \in MuteKinds

\* The commands with one target, with the gateway events and the timers.
NextCommands ==
    \/ \E u \in Users, allowed \in BOOLEAN : CanStartBeside(allowed) /\ WarnCmd(u, allowed)
    \/ \E c \in CmdIds, sent \in BOOLEAN : WarnNotified(c, sent)
    \/ \E c \in CmdIds, reply \in Reactions : WarnReacted(c, reply)
    \/ \E c \in CmdIds : WarnDone(c)
    \/ \E u \in Users, hasRole \in BOOLEAN, allowed \in BOOLEAN, time \in Times,
          reason \in BOOLEAN :
          CanStartBeside(allowed) /\ MuteCmd(u, hasRole, allowed, time, reason)
    \/ \E c \in CmdIds, ok \in BOOLEAN : MuteApplied(c, ok)
    \/ \E c \in CmdIds : MuteNoted(c)
    \/ \E c \in CmdIds : MuteCased(c)
    \/ \E c \in CmdIds : MuteLinked(c)
    \/ \E c \in CmdIds, sent \in BOOLEAN : MuteNotified(c, sent)
    \/ \E u \in Users, hasRole \in BOOLEAN, allowed \in BOOLEAN, time \in Times,
          reason \in BOOLEAN :
          CanStartBeside(allowed) /\ UnmuteCmd(u, hasRole, allowed, time, reason)
    \/ \E c \in CmdIds : UnmuteFound(c)
    \/ \E c \in CmdIds : UnmuteApplied(c)
    \/ \E c \in CmdIds : UnmuteDone(c)
    \/ \E u \in Users, allowed \in BOOLEAN, reason \in BOOLEAN : KickCmd(u, allowed, reason)
    \/ \E c \in CmdIds, sent \in BOOLEAN : KickNotified(c, sent)
    \/ \E c \in CmdIds : KickDone(c)
    \/ \E u \in Users, allowed \in BOOLEAN, reason \in BOOLEAN : BanCmd(u, allowed, reason)
    \/ \E c \in CmdIds, sent \in BOOLEAN : BanNotified(c, sent)
    \/ \E c \in CmdIds : BanDone(c)
    \/ \E u \in Users, allowed \in BOOLEAN : SoftbanCmd(u, allowed)
    \/ \E c \in CmdIds : SoftbanBanned(c)
    \/ \E c \in CmdIds : SoftbanUnbanned(c)
    \/ \E c \in CmdIds : SoftbanDone(c)
    \/ \E u \in Users : UnbanCmd(u)
    \/ \E c \in CmdIds : UnbanUnbanned(c)
    \/ \E c \in CmdIds : UnbanDone(c)
    \/ \E u \in Users, allowed \in BOOLEAN : ForcebanCmd(u, allowed)
    \/ \E c \in CmdIds : ForcebanBanned(c)
    \/ \E c \in CmdIds : ForcebanDone(c)
    \/ \E c \in CmdIds, ok \in BOOLEAN : \E n \in 1..Len(cmds[c].muts) : PlatformApply(c, n, ok)
    \/ \E e \in echoes, found \in BOOLEAN : OnEcho(e, found)
    \/ \E type \in IgnoredEventTypes, u \in Users, found \in BOOLEAN : OnExternal(type, u, found)
    \/ \E i \in 1..Len(timers) : FireTimer(i)

SpecCommands == Init /\ [][NextCommands]_vars

\* The softban commands explored together.
MaxSoftbans == 2

\* The softban commands with the gateway events of their bans and unbans and
\* the timers.
NextSoftban ==
    \/ \E u \in Users, allowed \in BOOLEAN :
          Len(cmds) < MaxSoftbans /\ SoftbanStart(u, allowed)
    \/ \E c \in CmdIds : SoftbanBanned(c)
    \/ \E c \in CmdIds : SoftbanUnbanned(c)
    \/ \E c \in CmdIds : SoftbanDone(c)
    \/ \E c \in CmdIds, ok \in BOOLEAN : \E n \in 1..Len(cmds[c].muts) : PlatformApply(c, n, ok)
    \/ \E e \in echoes, found \in BOOLEAN : OnEcho(e, found)
    \/ \E i \in 1..Len(timers) : FireTimer(i)

SpecSoftban == Init /\ [][NextSoftban]_vars

\* One call of applyFiltersToMsg, for every message and configuration.
NextFilter ==
    \/ /\ runs = <<>>
       /\ \E msg \in Messages({"m1"}), cfg \in Configs : OnMessageCreate(msg, cfg)
    \/ /\ runs = <<>>
       /\ \E msg \in Messages({"m1"}), cfg \in Configs : OnMessageUpdate(msg, cfg)
    \/ \E r \in RunIds, ok \in BOOLEAN : InvitesGot(r, ok)
    \/ \E r \in RunIds, ok \in BOOLEAN : DeleteReturned(r, ok)

SpecFilter == Init /\ [][NextFilter]_vars

\* The calls of applyFiltersToMsg explored together.
MaxRuns == 2

\* The configurations of the calls explored together: blocked tokens and an
\* invite guild whitelist, with the invite filter on or off.
CensorConfigs ==
    {cfg \in Configs :
        /\ cfg.blocked_tokens # <<>>
        /\ cfg.invite_guild_whitelist # Null
        /\ cfg.invite_guild_blacklist = Null
        /\ cfg.invite_code_whitelist = Null
        /\ cfg.invite_code_blacklist = Null
        /\ ~cfg.filter_domains
        /\ cfg.domain_whitelist = Null
        /\ cfg.domain_blacklist = Null
        /\ cfg.blocked_words = <<>>
        /\ cfg.blocked_regex = <<>>}

\* messageCreate and messageUpdate events filtered side by side.
NextCensor ==
    \/ /\ Len(runs) < MaxRuns
       /\ \E msg \in Messages(MsgIds), cfg \in CensorConfigs : OnMessageCreate(msg, cfg)
    \/ /\ Len(runs) < MaxRuns
       /\ \E msg \in Messages(MsgIds), cfg \in CensorConfigs : OnMessageUpdate(msg, cfg)
    \/ \E r \in RunIds, ok \in BOOLEAN : InvitesGot(r, ok)
    \/ \E r \in RunIds, ok \in BOOLEAN : DeleteReturned(r, ok)

SpecCensor == Init /\ [][NextCensor]_vars

\* ------------------------------------------------------------------ claims

\* The step being taken is the handling of a gateway event.
EventStep == last'.op = "event"

\* The step being taken runs expiry timers.
TimerStep == last'.op = "timer"

\* The timers that run in the step being taken.
Fired == {t \in Range(timers) : t \notin Range(timers')}

\* A registration for (type, userId) that no event has consumed and whose own
\* timer has not run.
LiveSuppression(type, userId) ==
    \E t \in Range(timers) :
        /\ t.type = type
        /\ t.userId = userId
        /\ t.id \notin consumed

\* The handler of the event of the step being taken made a case.
CaseMade == cases' # cases

\* C1: an event for (type, userId) that arrives while a suppression registered
\* for that pair is neither consumed nor expired is discarded and makes no case.
C1_LiveSuppressionDiscards ==
    [][(EventStep /\ LiveSuppression(last'.type, last'.userId)) => ~CaseMade]_vars

C3_ClearAbsentIsNoOp ==
    [][(TimerStep /\ \A t \in Fired : ~IsEventIgnored(ignoredEvents, t.type, t.userId))
         => ignoredEvents' = ignoredEvents]_vars

\* C4: an entry leaves the ledger only in the handling of an event of its pair
\* or when its own timer runs.
C4_OnlyMatchOrOwnExpiry ==
    [][\A e \in Range(ignoredEvents) :
         e \notin Range(ignoredEvents') =>
            \/ EventStep /\ last'.type = e.type /\ last'.userId = e.userId
            \/ \E t \in Fired : t.id = e.id]_vars

\* C5: with two or more entries of one pair in the ledger, an event of the pair
\* removes exactly one entry, makes no case, and the pair is still ignored.
C5_OneOfTwoConsumed ==
    [][(EventStep /\ CountOf(ignoredEvents, last'.type, last'.userId) >= 2) =>
         /\ ~CaseMade
         /\ Len(ignoredEvents') = Len(ignoredEvents) - 1
         /\ CountOf(ignoredEvents', last'.type, last'.userId)
              = CountOf(ignoredEvents, last'.type, last'.userId) - 1
         /\ IsEventIgnored(ignoredEvents', last'.type, last'.userId)]_vars

\* An event was just discarded and its pair still has an entry.
C5_Witness ==
    /\ last.op = "event"
    /\ last.ignored
    /\ IsEventIgnored(ignoredEvents, last.type, last.userId)

\* Every registration for (type, userId) has expired, one of them unconsumed.
ExpiredUnconsumed(type, userId) ==
    /\ \E x \in expired : x.type = type /\ x.userId = userId /\ x.id \notin consumed
    /\ \A t \in Range(timers) : ~(t.type = type /\ t.userId = userId)

CmdCases(c, n) == {k \in cases : k.by = "cmd" /\ k.ref = <<c, n>>}

\* C7: a command's case exists if and only if its platform mutation succeeded:
\* none once a mutation of the command (for massban: of that target) has
\* failed, one once the command has ended with its mutations carried out.
C7_CaseIffMutationSucceeded ==
    \A c \in CmdIds :
        IF cmds[c].kind = "massban"
        THEN \A n \in 1..Len(cmds[c].muts) :
                /\ cmds[c].muts[n].st = "fail" => CmdCases(c, n) = {}
                /\ (cmds[c].pc = "done" /\ cmds[c].muts[n].st = "ok") => CmdCases(c, n) # {}
        ELSE /\ (\E n \in 1..Len(cmds[c].muts) : cmds[c].muts[n].st = "fail")
                  => CmdCases(c, 1) = {}
             /\ ( /\ cmds[c].pc = "done"
                  /\ cmds[c].muts # <<>>
                  /\ \A n \in 1..Len(cmds[c].muts) : cmds[c].muts[n].st = "ok"
                  /\ cmds[c].kind = "softban" => Len(cmds[c].muts) = 2 )
                  => CmdCases(c, 1) # {}

\* C8: a case made from a gateway event is automatic, with the moderator of
\* the audit entry or none; a case made by a command is not automatic.
C8_EventCasesAutomatic ==
    [][\A k \in cases' \ cases :
         IF k.by = "cmd"
         THEN ~k.automatic
         ELSE /\ k.automatic
              /\ k.modId = IF ~last'.found THEN NoEntry
                           ELSE IF k.by = "echo" THEN BotId ELSE ForeignModId]_vars

\* The case the handler of an unsuppressed event of (type, userId) makes.
IsEventCase(k, type, userId, found) ==
    /\ k.by # "cmd"
    /\ k.userId = userId
    /\ k.type = (CASE type = Ban -> "Ban" [] type = Unban -> "Unban" [] type = Kick -> "Kick")
    /\ found <=> k.modId # NoEntry

Sent(c) ==
    LET before == IF c <= Len(cmds) THEN Len(cmds[c].muts) ELSE 0
    IN  {n \in 1..Len(cmds'[c].muts) : n > before}

MuteIds == {c \in CmdIds : cmds[c].kind = "mute"}

\* The notes command c added.
NotesBy(c) == {n \in notes : n.cmd = c}

\* The Mute cases of a user.
MuteCasesOf(u) == {k \in cases : k.type = "Mute" /\ k.userId = u}

\* C11: a mute command for a member whose live MuteState references a case
\* (the MuteState fire("mute") gives it) makes no case and does not tell the
\* member; having muted, it has added one note to that case when it had a
\* reason and none when it had not.
C11_RemuteAddsNoteOnly ==
    \A c \in MuteIds :
        (cmds[c].mute.live /\ cmds[c].mute.caseId # NoCase) =>
            /\ CmdCases(c, 1) = {}
            /\ ~cmds[c].notified
            /\ \A n \in NotesBy(c) : n.caseId = cmds[c].mute.caseId
            /\ Cardinality(NotesBy(c)) = IF cmds[c].reason THEN 1 ELSE 0
            /\ cmds[c].messageSent
            /\ \E k \in MuteCasesOf(cmds[c].userIds[1]) : k.ref = cmds[c].mute.caseId

\* A re-mute with a reason has ended with its note on the old case.
C11_Witness ==
    \E c \in MuteIds :
        /\ cmds[c].pre.live
        /\ cmds[c].pre.caseId # NoCase
        /\ cmds[c].reason
        /\ cmds[c].out = "ok"
        /\ NotesBy(c) # {}

\* C12: mute commands for one user, however they interleave, make at most one
\* Mute case for that user between them.
C12_AtMostOneMuteCase ==
    \A u \in Users : Cardinality(MuteCasesOf(u)) <= 1

\* C13: a mute command makes a Mute case only when the member had no live
\* MuteState when the command came.
C13_FreshCaseOnlyWithoutMuteState ==
    \A c \in MuteIds : CmdCases(c, 1) # {} => ~cmds[c].pre.live

\* The massban commands.
MassIds == {c \in CmdIds : cmds[c].kind = "massban"}

\* The cases command c made, for whichever target.
AllCmdCases(c) == {k \in cases : k.by = "cmd" /\ k.ref[1] = c}

\* The MASSBAN entries of the log.
MassbanLogs == {l \in logs : l.type = "MASSBAN"}

\* The targets whose ban the platform rejected, in the order of the request.
RECURSIVE FailedInOrder(_, _)
FailedInOrder(muts, userIds) ==
    IF muts = <<>> THEN <<>>
    ELSE (IF Head(muts).st = "fail" THEN <<Head(userIds)>> ELSE <<>>)
           \o FailedInOrder(Tail(muts), Tail(userIds))

\* The massban went through its ban loop and has ended.
Ran(rec) == rec.pc = "done" /\ rec.out \in {"ok", "partial", "allfailed"}

\* The command has left no trace: no ban sent, no case, no suppression, no
\* summary.
NothingDone(c) ==
    /\ cmds[c].muts = <<>>
    /\ AllCmdCases(c) = {}
    /\ cmds[c].reg = {}
    /\ timers = <<>>
    /\ ignoredEvents = <<>>
    /\ ignoredLogs = {}
    /\ MassbanLogs = {}

C15_DisallowedTargetAborts ==
    \A c \in MassIds :
        /\ ( /\ cmds[c].pc \notin {"start", "reply"}
             /\ cmds[c].out \notin {"toomany", "cancelled"}
             /\ Range(cmds[c].userIds) \cap cmds[c].blocked # {} )
              => /\ cmds[c].pc = "done"
                 /\ cmds[c].out = "denied"
                 /\ NothingDone(c)
        /\ cmds[c].out = "denied" => Range(cmds[c].userIds) \cap cmds[c].blocked # {}

\* A massban was refused for its last target alone.
C15_Witness ==
    \E c \in MassIds :
        /\ cmds[c].out = "denied"
        /\ Len(cmds[c].userIds) = 3
        /\ cmds[c].userIds[3] \in cmds[c].blocked
        /\ cmds[c].userIds[1] \notin cmds[c].blocked
        /\ cmds[c].userIds[2] \notin cmds[c].blocked

\* The answers that call the massban off.
CancelSpellings == {"cancel", "CANCEL", " Cancel "}

\* C16: no answer in time, an answer without content or the answer "cancel",
\* in any case and with spaces around it, ends the massban with nothing done;
\* any other answer is taken as the reason.
C16_NoReplyOrCancelAborts ==
    \A c \in MassIds :
        (cmds[c].pc \notin {"start", "reply"} /\ cmds[c].out # "toomany") =>
            IF \/ ~cmds[c].reply.got
               \/ cmds[c].reply.content = ""
               \/ cmds[c].reply.content \in CancelSpellings
            THEN /\ cmds[c].pc = "done"
                 /\ cmds[c].out = "cancelled"
                 /\ NothingDone(c)
            ELSE cmds[c].out # "cancelled"

\* A massban was called off with " Cancel ".
C16_Witness ==
    \E c \in MassIds :
        /\ cmds[c].out = "cancelled"
        /\ cmds[c].reply.got
        /\ cmds[c].reply.content = " Cancel "

\* C17: a massban all of whose bans failed records no MASSBAN log entry, makes
\* no case and tells the requester that all bans failed; no other massban is
\* answered so.
C17_AllFailedNoSummary ==
    \A c \in MassIds :
        /\ ( /\ Ran(cmds[c])
             /\ \A n \in 1..Len(cmds[c].muts) : cmds[c].muts[n].st = "fail" )
              => /\ cmds[c].out = "allfailed"
                 /\ MassbanLogs = {}
                 /\ AllCmdCases(c) = {}
        /\ cmds[c].out = "allfailed" =>
              /\ Len(cmds[c].muts) = Len(cmds[c].userIds)
              /\ \A n \in 1..Len(cmds[c].muts) : cmds[c].muts[n].st = "fail"

\* A massban of several targets ended with every ban failed.
C17_Witness ==
    \E c \in MassIds :
        /\ cmds[c].out = "allfailed"
        /\ Len(cmds[c].userIds) >= 2
        /\ MassbanLogs = {}

\* C18: a massban of more than 100 ids ends at once, before the question for
\* the reason, with nothing done; one of 100 ids or fewer goes on to the
\* question.
C18_OverLimitRejected ==
    \A c \in MassIds :
        IF Len(cmds[c].userIds) > 100
        THEN /\ cmds[c].pc = "done"
             /\ cmds[c].out = "toomany"
             /\ NothingDone(c)
        ELSE /\ cmds[c].out # "toomany"
             /\ cmds[c].pc # "start"
             /\ cmds[c].pc = "done" => cmds[c].reply.got \/ cmds[c].out = "cancelled"

\* A massban of 101 ids was turned away.
C18_Witness ==
    \E c \in MassIds :
        /\ Len(cmds[c].userIds) = 101
        /\ cmds[c].out = "toomany"

\* C19: tryToMessageUser with neither switch on returns true and calls no
\* transport.
C19_NothingEnabledIsDelivered ==
    (notify.pc # "idle" /\ ~notify.useDM /\ ~notify.useChannel) =>
        /\ notify.pc = "returned"
        /\ notify.result
        /\ notify.calls = <<>>

\* tryToMessageUser has returned true with both switches off.
C19_Witness ==
    /\ notify.pc = "returned"
    /\ ~notify.useDM
    /\ ~notify.useChannel
    /\ notify.result

\* The transports tryToMessageUser tried.
TriedDM == \E k \in 1..Len(notify.calls) : notify.calls[k] = "getDMChannel"
TriedChannel == \E k \in 1..Len(notify.calls) : notify.calls[k] = "channels.get"

\* C20 as claimed: with a switch on, tryToMessageUser returns true exactly
\* when a message went through, has tried the direct message whenever that is
\* on and the channel message whenever that is on; a transport that fails
\* only makes for a false.
C20_EitherDelivered ==
    (notify.pc = "returned" /\ (notify.useDM \/ notify.useChannel)) =>
        /\ notify.result <=> (notify.dmOk \/ notify.channelOk)
        /\ notify.useDM => TriedDM
        /\ notify.useChannel => TriedChannel

\* C20 as amended: with a switch on, tryToMessageUser returns true exactly
\* when a message went through; it has tried the direct message whenever that
\* is on, and the channel message whenever that is on and a message channel
\* is configured, whatever became of the direct message; a transport that
\* fails only makes for a false.
C20_EitherDeliveredIfConfigured ==
    (notify.pc = "returned" /\ (notify.useDM \/ notify.useChannel)) =>
        /\ notify.result <=> (notify.dmOk \/ notify.channelOk)
        /\ TriedDM <=> notify.useDM
        /\ TriedChannel <=> (notify.useChannel /\ notify.messageChannel # "unset")

\* Both messages were tried, the direct one went through, the channel one
\* did not, and true was returned.
C20_Witness ==
    /\ notify.pc = "returned"
    /\ notify.useDM
    /\ notify.useChannel
    /\ notify.dmOk
    /\ ~notify.channelOk
    /\ TriedChannel
    /\ notify.result

\* The kick and ban commands.
KickBanIds == {c \in CmdIds : cmds[c].kind \in {"kick", "ban"}}

\* C21: while a kick or ban command waits for tryToMessageUser it has made no
\* ignoreEvent or ignoreLog call, sent no kick or ban and made no case; once
\* its mutation is sent the command is past that wait and has registered the
\* suppression of the mutation's echo.
C21_NotifiedBeforeMutation ==
    \A c \in KickBanIds :
        /\ cmds[c].pc = "notify" =>
              /\ cmds[c].muts = <<>>
              /\ cmds[c].reg = {}
              /\ CmdCases(c, 1) = {}
              /\ Len(cmds) = 1 =>
                    ignoredEvents = <<>> /\ timers = <<>> /\ ignoredLogs = {}
        /\ cmds[c].muts # <<>> =>
              /\ cmds[c].pc \in {"case", "done"}
              /\ cmds[c].reg = {<<EchoType(cmds[c].muts[1].op), cmds[c].userIds[1]>>}

\* A kick or ban whose message to the member failed has gone on to register
\* the suppression and send the mutation.
C21_Witness ==
    \E c \in KickBanIds :
        /\ ~cmds[c].messageSent
        /\ Len(cmds[c].muts) = 1
        /\ cmds[c].reg # {}

\* The commands the authority check refused.
DeniedIds == {c \in CmdIds : cmds[c].out = "denied"}

\* C22: the step in which canActOn refuses a command changes nothing but the
\* command's own end: the ledger, the timers, the log suppressions, the
\* cases, the notes, the log, the mute store, the platform calls and the call
\* of tryToMessageUser are as before; and a refused command has ended, with
\* no mutation sent, no suppression registered, no case and no note of its
\* own.
C22_DeniedChangesNothing ==
    [][\A c \in 1..Len(cmds') : cmds'[c].out = "denied" =>
         /\ cmds'[c].kind \in {"warn", "mute", "unmute", "kick", "ban", "softban", "forceban"}
         /\ cmds'[c].pc = "done"
         /\ cmds'[c].muts = <<>>
         /\ cmds'[c].reg = {}
         /\ cmds'[c].messageSent
         /\ {k \in cases' : k.by = "cmd" /\ k.ref[1] = c} = {}
         /\ {n \in notes' : n.cmd = c} = {}
         /\ c > Len(cmds) =>
              /\ cmds' = Append(cmds, cmds'[c])
              /\ UNCHANGED <<ignoredEvents, timers, nextId, consumed, expired, cases, logs,
                             ignoredLogs, echoes, external, mutes, notes, notify, runs>>]_vars

\* A command was refused while another had its suppression in the ledger, its
\* mutation sent and its case made.
C22_Witness ==
    \E c \in DeniedIds :
        /\ c = 2
        /\ last.op = "cmd"
        /\ cmds[c].kind = "warn"
        /\ cmds[1].pc = "case"
        /\ cmds[1].muts # <<>>
        /\ ignoredEvents # <<>>
        /\ cases # {}

\* The warn, mute, kick and ban commands that passed the authority check,
\* whose action was not rejected, and that have ended.
PunitiveEnded ==
    {c \in CmdIds :
        /\ cmds[c].kind \in {"warn", "mute", "kick", "ban"}
        /\ cmds[c].pc = "done"
        /\ cmds[c].out \notin {"denied", "norole", "failed"}
        /\ \A n \in 1..Len(cmds[c].muts) : cmds[c].muts[n].st # "fail"}

\* The command has its case: the one it made, or, for a mute of a member
\* whose MuteState had a case, that one.
HasCase(c) ==
    \/ Cardinality(CmdCases(c, 1)) = 1
    \/ cmds[c].kind = "mute" /\ HasOldCase(cmds[c].mute) /\ CmdCases(c, 1) = {}

\* C23 as claimed: every warn, mute, kick or ban that passed the authority
\* check and whose action succeeded has its case, whether or not the user
\* could be told.
C23_AlwaysCase ==
    \A c \in PunitiveEnded : HasCase(c)

\* C23: a mute, kick or ban that passed the authority check and whose action
\* succeeded has its case and ends in success, which says so when the user
\* could not be told; a warn whose user could not be told has its case and
\* ends in success only when the requester answered the question with the
\* check mark, and otherwise ends with no case and no response.
C23_CaseUnlessWarnDropped ==
    \A c \in PunitiveEnded :
        IF cmds[c].kind = "warn"
        THEN IF cmds[c].messageSent \/ (cmds[c].reply.got /\ cmds[c].reply.content = "check")
             THEN HasCase(c) /\ cmds[c].out = "ok"
             ELSE CmdCases(c, 1) = {} /\ cmds[c].out = "dropped"
        ELSE /\ HasCase(c)
             /\ cmds[c].out = IF cmds[c].messageSent THEN "ok" ELSE "ok_unnotified"

\* A warn whose user could not be told was confirmed by the requester and has
\* its case; so has a kick, after the failed message.
C23_Witness ==
    /\ \E c \in PunitiveEnded :
          /\ cmds[c].kind = "warn"
          /\ ~cmds[c].messageSent
          /\ cmds[c].reply.got
          /\ HasCase(c)
    /\ \E c \in PunitiveEnded : cmds[c].kind # "warn" /\ ~cmds[c].messageSent /\ HasCase(c)

\* The unban, forceban and mute commands whose action the platform (the mute
\* action) rejected.
FailedIds ==
    {c \in CmdIds :
        /\ cmds[c].kind \in {"unban", "forceban", "mute"}
        /\ cmds[c].pc = "done"
        /\ cmds[c].out = "failed"}

\* The pair was registered by command c and by no other.
OnlyBy(c, pair) ==
    /\ pair \in cmds[c].reg
    /\ \A d \in CmdIds \ {c} : pair \notin cmds[d].reg

\* C24: an unban, forceban or mute command whose action was rejected has
\* ended with the error, has no case and, running alone, no log entry; and
\* the suppression a rejected unban or forceban registered (no other command
\* having registered the same) is in the ledger unless an event has consumed
\* it or its timer has run.
C24_FailureLeavesSuppression ==
    \A c \in FailedIds :
        /\ AllCmdCases(c) = {}
        /\ Len(cmds) = 1 => logs \subseteq {l \in logs : l.type = "MEMBER_KICK" /\ l.mod # ModId}
        /\ \A pair \in cmds[c].reg :
              OnlyBy(c, pair) =>
                 \/ CountOf(ignoredEvents, pair[1], pair[2]) = 1
                 \/ \E t \in Range(timers) \cup expired :
                       /\ t.type = pair[1]
                       /\ t.userId = pair[2]
                       /\ t \in expired \/ t.id \in consumed

\* The ledger holds an entry of exactly this type and this user id.
Holds(events, type, userId) ==
    \E i \in 1..Len(events) : events[i].type = type /\ events[i].userId = userId

\* The entries of the ledger that are not of this type and this user id.
Others(events, type, userId) ==
    SelectSeq(events, LAMBDA info : ~(info.type = type /\ info.userId = userId))

\* C25: a gateway event is discarded exactly when the ledger holds an entry of
\* its type and its user id; discarding it leaves the entries of every other
\* type or user as they are and takes one of its own; an event that is not
\* discarded leaves the ledger as it is.
C25_NoFalseSuppression ==
    [][EventStep =>
         /\ last'.ignored <=> Holds(ignoredEvents, last'.type, last'.userId)
         /\ last'.ignored =>
              /\ cases' = cases
              /\ Others(ignoredEvents', last'.type, last'.userId)
                   = Others(ignoredEvents, last'.type, last'.userId)
              /\ Len(ignoredEvents') = Len(ignoredEvents) - 1
         /\ ~last'.ignored => ignoredEvents' = ignoredEvents]_vars

\* With (Ban, u1) in the ledger, a ban of u2 and an unban or removal of u1
\* were not discarded: the entry is still there and the event has its case.
C25_Witness ==
    /\ last.op = "event"
    /\ ~last.ignored
    /\ Holds(ignoredEvents, Ban, "u1")
    /\ \/ last.type = Ban /\ last.userId = "u2"
       \/ last.type = Unban /\ last.userId = "u1"
    /\ \E k \in cases : k.by # "cmd" /\ k.userId = last.userId
                          /\ k.type = (IF last.type = Ban THEN "Ban" ELSE "Unban")

\* The timers of softban c have not run.
SoftbanPending(c) == \E t \in Range(timers) : t.at = cmds[c].at

\* C26: a softban has registered the Ban and the Unban suppression of its
\* target when its ban is sent, sends the unban only when the ban has been
\* carried out, and past the unban has one case of its own, of type Softban;
\* the echo of its ban or its unban, handled while the softban's timers have
\* not run, is discarded and makes no case.
C26_SoftbanOneCase ==
    [][/\ \A c \in 1..Len(cmds') : cmds'[c].kind = "softban" =>
            LET u == cmds'[c].userIds[1]
                own == {k \in cases' : k.by = "cmd" /\ k.ref[1] = c}
            IN  /\ cmds'[c].muts # <<>> =>
                      /\ {<<Ban, u>>, <<Unban, u>>} \subseteq cmds'[c].reg
                      /\ cmds'[c].muts[1].op = "ban"
                /\ Len(cmds'[c].muts) = 2 =>
                      /\ cmds'[c].muts[1].st = "ok"
                      /\ cmds'[c].muts[2].op = "unban"
                /\ cmds'[c].pc = "case" \/ cmds'[c].out = "ok" =>
                      /\ Cardinality(own) = 1
                      /\ \A k \in own : k.type = "Softban"
                /\ cmds'[c].pc \notin {"case", "done"} \/ cmds'[c].out = "threw" => own = {}
       /\ (/\ EventStep
           /\ last'.cmd \in CmdIds
           /\ cmds[last'.cmd].kind = "softban"
           /\ SoftbanPending(last'.cmd))
             => last'.ignored /\ cases' = cases]_vars

\* C27: every step keeps the entries of the ledger no more than the timers
\* not yet run, so with no timer left the ledger is empty; a step that
\* registers adds as many entries as timers, one for each ignoreEvent call;
\* the handling of an event takes one entry at most and no timer; a run of
\* timers takes no more entries than timers have run; no other step touches
\* the ledger.
C27_LedgerNeverLeaks ==
    [][/\ Len(ignoredEvents') <= Len(timers')
       /\ timers' = <<>> => ignoredEvents' = <<>>
       /\ IF nextId' # nextId
          THEN /\ Len(ignoredEvents') = Len(ignoredEvents) + (nextId' - nextId)
               /\ Len(timers') = Len(timers) + (nextId' - nextId)
               /\ \A k \in 1..Len(ignoredEvents) : ignoredEvents'[k] = ignoredEvents[k]
               /\ \A k \in (Len(timers) + 1)..Len(timers') :
                     /\ timers'[k].id \in nextId..(nextId' - 1)
                     /\ \E j \in (Len(ignoredEvents) + 1)..Len(ignoredEvents') :
                           /\ ignoredEvents'[j].id = timers'[k].id
                           /\ ignoredEvents'[j].type = timers'[k].type
                           /\ ignoredEvents'[j].userId = timers'[k].userId
          ELSE IF EventStep
          THEN /\ Len(ignoredEvents') >= Len(ignoredEvents) - 1
               /\ timers' = timers
          ELSE IF TimerStep
          THEN /\ Len(timers') < Len(timers)
               /\ Len(ignoredEvents) - Len(ignoredEvents') <= Len(timers) - Len(timers')
               /\ Len(ignoredEvents') <= Len(ignoredEvents)
          ELSE ignoredEvents' = ignoredEvents /\ timers' = timers]_vars

\* All timers have run, one of them for an entry no event had consumed, and
\* the ledger is empty.
C27_Witness ==
    /\ timers = <<>>
    /\ ignoredEvents = <<>>
    /\ \E t \in expired : t.id \notin consumed
    /\ \E t \in expired : t.id \in consumed

\* The CENSOR entries of the log for message m.
CensorLogs(m) == {l \in logs : l.type = "CENSOR" /\ l.msg = m}

\* The calls whose delete of message m went through.
Deleted(m) == {r \in RunIds : runs[r].msg.id = m /\ runs[r].del = "ok"}

\* C28: a call of censorMessage has made its ignoreLog(MESSAGE_DELETE) call
\* when its delete is sent; it has a CENSOR entry in the log exactly when its
\* delete went through; so a message has as many CENSOR entries as deletes
\* that went through, at most one when the platform lets one delete succeed.
C28_CensorAfterDelete ==
    /\ \A r \in RunIds :
          /\ runs[r].del # "none" =>
                IgnoreLog("MESSAGE_DELETE", runs[r].msg.id, 0) \in ignoredLogs
          /\ (\E l \in logs : l.type = "CENSOR" /\ l.run = r) <=> runs[r].del = "ok"
          /\ \A l \in logs : (l.type = "CENSOR" /\ l.run = r) => l.msg = runs[r].msg.id
    /\ \A m \in MsgIds :
          /\ Cardinality(CensorLogs(m)) = Cardinality(Deleted(m))
          /\ Cardinality(Deleted(m)) <= 1 => Cardinality(CensorLogs(m)) <= 1

\* messageCreate and messageUpdate of one message were filtered side by side,
\* both called censorMessage, one delete went through and the other did not:
\* the log has one CENSOR entry for the message.
C28_Witness ==
    /\ Len(runs) = 2
    /\ runs[1].event = "messageCreate"
    /\ runs[2].event = "messageUpdate"
    /\ runs[1].msg.id = runs[2].msg.id
    /\ runs[1].calls = 1
    /\ runs[2].calls = 1
    /\ {runs[1].del, runs[2].del} = {"ok", "fail"}
    /\ Cardinality(CensorLogs(runs[1].msg.id)) = 1

\* The rules of the configuration the message matches, each with its place in
\* the order of evaluation: the filter (invites 1, domains 2, blocked tokens 3,
\* blocked words 4, blocked regex 5), the place of the invite, url or list
\* item, the check made on it, and the reason of the rule.
Matching(msg, cfg) ==
    LET codes == GetInviteCodesInString(msg.content)
        urls == GetUrlsInString(msg.content)
        OnInvites(i) == cfg.filter_invites /\ i \in 1..Len(codes)
        OnDomains(i) == cfg.filter_domains /\ i \in 1..Len(urls)
    IN  {<<1, i, 1, Reason("invite guild not found in whitelist", GetInvite(codes[i]).guild)>> :
            i \in {i \in 1..Len(codes) :
                     /\ OnInvites(i)
                     /\ cfg.invite_guild_whitelist.set
                     /\ GetInvite(codes[i]).guild \notin cfg.invite_guild_whitelist.items}}
        \cup
        {<<1, i, 2, Reason("invite guild found in blacklist", GetInvite(codes[i]).guild)>> :
            i \in {i \in 1..Len(codes) :
                     /\ OnInvites(i)
                     /\ cfg.invite_guild_blacklist.set
                     /\ GetInvite(codes[i]).guild \in cfg.invite_guild_blacklist.items}}
        \cup
        {<<1, i, 3, Reason("invite code not found in whitelist", codes[i])>> :
            i \in {i \in 1..Len(codes) :
                     /\ OnInvites(i)
                     /\ cfg.invite_code_whitelist.set
                     /\ codes[i] \notin cfg.invite_code_whitelist.items}}
        \cup
        {<<1, i, 4, Reason("invite code found in blacklist", codes[i])>> :
            i \in {i \in 1..Len(codes) :
                     /\ OnInvites(i)
                     /\ cfg.invite_code_blacklist.set
                     /\ codes[i] \in cfg.invite_code_blacklist.items}}
        \cup
        {<<2, i, 1, Reason("domain not found in whitelist", urls[i])>> :
            i \in {i \in 1..Len(urls) :
                     /\ OnDomains(i)
                     /\ cfg.domain_whitelist.set
                     /\ urls[i] \notin cfg.domain_whitelist.items}}
        \cup
        {<<2, i, 2, Reason("domain found in blacklist", urls[i])>> :
            i \in {i \in 1..Len(urls) :
                     /\ OnDomains(i)
                     /\ cfg.domain_blacklist.set
                     /\ urls[i] \in cfg.domain_blacklist.items}}
        \cup
        {<<3, i, 1, Reason("blocked token found", cfg.blocked_tokens[i])>> :
            i \in {i \in 1..Len(cfg.blocked_tokens) :
                     Includes(msg.content, cfg.blocked_tokens[i])}}
        \cup
        {<<4, i, 1, Reason("blocked word found", cfg.blocked_words[i])>> :
            i \in {i \in 1..Len(cfg.blocked_words) :
                     WordTest(msg.content, cfg.blocked_words[i])}}
        \cup
        {<<5, i, 1, Reason("blocked regex found", cfg.blocked_regex[i])>> :
            i \in {i \in 1..Len(cfg.blocked_regex) :
                     RegexTest(msg.content, cfg.blocked_regex[i])}}

\* x is evaluated no later than y.
NoLater(x, y) ==
    \/ x[1] < y[1]
    \/ x[1] = y[1] /\ x[2] < y[2]
    \/ x[1] = y[1] /\ x[2] = y[2] /\ x[3] <= y[3]

\* The rule evaluated first among these.
Earliest(rules) == CHOOSE x \in rules : \A y \in rules : NoLater(x, y)

\* C29: a call of applyFiltersToMsg calls censorMessage once at most; when it
\* does, the reason is that of the rule evaluated first among the rules the
\* message matches (invites, then domains, blocked tokens, blocked words,
\* blocked regex); a call that reaches its end has matched no rule; and the
\* message of a bot, of another type than the default, or without content is
\* passed over: no censorMessage call, no delete, no CENSOR entry.
C29_FirstMatchOnly ==
    \A r \in RunIds :
        LET rec == runs[r]
            rules == Matching(rec.msg, rec.cfg)
        IN  /\ rec.calls <= 1
            /\ rec.calls = 1 <=> rec.del # "none"
            /\ rec.calls = 1 => rules # {} /\ rec.reason = Earliest(rules)[4]
            /\ rec.out = "clean" => rules = {}
            /\ \A l \in logs : (l.type = "CENSOR" /\ l.run = r) => l.reason = rec.reason
            /\ (rec.msg.bot \/ rec.msg.type # 0 \/ rec.msg.content = "") =>
                  /\ rec.calls = 0
                  /\ rec.out = "skipped"
                  /\ ~\E l \in logs : l.type = "CENSOR" /\ l.run = r

\* A message that matches an invite rule, a domain rule and a blocked token
\* was censored, with the reason of the invite rule in the log.
C29_Witness ==
    \E r \in RunIds :
        LET rules == Matching(runs[r].msg, runs[r].cfg) IN
        /\ runs[r].out = "censored"
        /\ {x[1] : x \in rules} = {1, 2, 3, 4, 5}
        /\ runs[r].reason.rule = "invite code found in blacklist"
        /\ \E l \in logs : l.type = "CENSOR" /\ l.reason = runs[r].reason

====
